---- MODULE Spec2Model ----
(***************************************************************************)
(* The process supervisor of internal/server (type Server): the lifecycle  *)
(* calls Start, Stop and Restart, the exit monitor, the output readers and *)
(* the child process they supervise, as interleaved goroutine steps.  One  *)
(* step is one access to what the goroutines read of each other: the       *)
(* status, the handles s.cmd and s.stdin, the child process.  The event    *)
(* log, the event channel and the restart counter are written by the       *)
(* goroutines and read by none of them, so an append or an increment is    *)
(* taken in the same step as the access next to it in the code.            *)
(* time.Sleep is the gap between two steps: any number of steps of the     *)
(* other goroutines may fall into it.                                      *)
(***************************************************************************)
EXTENDS Integers, Sequences, FiniteSets, TLC

\* Bounds of the model.
MaxChildren == 2
MaxOps == 2
MaxLines == 1
MaxTicks == 2
MaxBurst == 4
CounterBits == 4
MaxBytes == 1
MaxTime == 3
MaxCalls == 3
MaxKeep == 2

\* Capacities set by New and addEvent.
OutputChanCap == 1000
EventChanCap == 100
EventLogCap == 100

\* Capacity of the TUI's console buffer.
ConsoleCap == 1000

\* The player limit and the TPS (20.0, in hundredths) New starts from.
DefaultMaxPlayers == 20
DefaultTPS == 2000

Children == 1..MaxChildren
Operator == 0
Threads == 0..MaxChildren
Streams == {"stdout", "stderr"}

StatusValues ==
    {"Stopped", "Starting", "Running", "Stopping", "Crashed", "Restarting",
     "Downloading", "Installing"}

VARIABLES
    status,       \* s.stats.Status
    cmd,          \* s.cmd: 0 is nil, else the child the handle belongs to
    stdin,        \* s.stdin: 0 is nil, else the child the pipe leads to
    child,        \* child -> "none" | "alive" | "ok" (exit 0) | "err"
    stdinLog,     \* child -> the lines written to its input stream
    events,       \* s.stats.RecentEvents
    eventChan,    \* s.eventChan
    outputChan,   \* s.outputChan
    restarts,     \* s.stats.Restarts
    thr,          \* the lifecycle goroutines: the operator's and one per auto-restart
    mon,          \* the monitorProcess goroutines, one per spawn
    rd,           \* the readOutput goroutines: the line each holds, or "none"
    linesLeft,    \* lines the children may still print
    opsLeft,      \* calls the operator may still make
    autoRestart,  \* config.AutoRestart
    modpack,      \* config.ModpackID != ""
    spawnCap,     \* children the supervisor may spawn in this run
    lineKinds,    \* the kinds of line the children print in this run
    ticksLeft,    \* ticks the timers may still deliver
    consoleLines, \* the TUI's console buffer
    sendRes,      \* the TUI's SendCommand calls: how many, the last command and result
    tps,          \* the requestTPSLoop goroutines, one per spawn
    statsMutex,   \* s.statsMutex: "free", or the goroutine that holds it
    ap,           \* the goroutines inside addEvent: where each is, and its event
    sent,         \* every line the readers have scanned, in order
    evHistory,    \* every event addEvent has logged, in order
    players,      \* s.stats.Players
    playerCount,  \* s.stats.PlayerCount
    maxPlayers,   \* s.stats.MaxPlayers
    statsTPS,     \* s.stats.TPS, in hundredths
    serverStats,  \* m.serverStats: the snapshot the TUI holds
    ctxDone,      \* s.ctx is cancelled
    awake,        \* children whose requestTPSLoop has slept its first 15 s
    exited,       \* the timer loops that have returned
    bk,           \* the backupScheduler goroutines, one per spawn
    quit,         \* the operator has left the TUI
    raced,        \* children that exited while Stop's own Wait was pending on them
    stopFor,      \* children that were alive and current when a Stop set Stopping
    manualIn,     \* monitors in whose crash window the operator took a step
    stopIn,       \* monitors in whose delay window the operator called Stop
    ioValues,     \* the byte counts IOCounters reports in this run; none: it fails
    lastNetCheck, \* s.lastNetCheck is not the zero time
    lastBytesIn,  \* s.lastBytesIn
    lastBytesOut, \* s.lastBytesOut
    bandwidthIn,  \* s.stats.BandwidthIn, per second of a one-second tick
    bandwidthOut, \* s.stats.BandwidthOut
    ioCounters,   \* child -> the cumulative counters its last sample read
    serverDir,    \* m.serverDir: path -> "dir" or a file's content
    backupDirExists, \* m.backupDir is there
    backupDir,    \* m.backupDir: archive name -> the archive file
    now,          \* time.Now(), in seconds
    maxBackups,   \* m.maxBackups
    calls         \* the Manager calls made so far, with their results

vars ==
    <<ioValues, lastNetCheck, lastBytesIn, lastBytesOut, bandwidthIn,
      bandwidthOut, ioCounters, serverDir, backupDirExists, backupDir, now,
      maxBackups, calls,
      status, cmd, stdin, child, stdinLog, events, eventChan, outputChan,
      restarts, thr, mon, rd, linesLeft, opsLeft, autoRestart, modpack,
      spawnCap, lineKinds, ticksLeft, consoleLines, sendRes,
      tps, statsMutex, ap, sent, evHistory, players, playerCount, maxPlayers,
      statsTPS, serverStats, ctxDone, awake, exited, bk, quit, raced,
      stopFor, manualIn, stopIn>>

\* Groups for UNCHANGED.
procVars == <<cmd, stdin, child, stdinLog, raced>>
logVars == <<events, eventChan, evHistory>>
readVars == <<rd, linesLeft, outputChan, sent>>
confVars == <<autoRestart, modpack, spawnCap, lineKinds, ioValues>>
netVars ==
    <<lastNetCheck, lastBytesIn, lastBytesOut, bandwidthIn, bandwidthOut,
      ioCounters>>
fsVars == <<serverDir, backupDirExists, backupDir, now, maxBackups, calls>>
\* What the lifecycle, the readers and the event log leave alone: the
\* configuration, the sampler's counters and the backup manager's directories.
envVars == <<confVars, netVars, fsVars>>
statVars == <<players, playerCount, maxPlayers, statsTPS>>
loopVars == <<ctxDone, awake, exited, bk, quit>>
sideVars ==
    <<ticksLeft, consoleLines, sendRes, tps, statsMutex, ap, statVars,
      serverStats, loopVars>>

----------------------------------------------------------------------------
\* Helpers

\* A log that refuses the new event once it is full.
AppendEvent_DropNewest(log, e) ==
    IF Len(log) < EventLogCap THEN Append(log, e) ELSE log

\* addEvent's log: append, then drop the oldest beyond the cap.
AppendEvent(log, e) ==
    LET l == Append(log, e)
    IN  IF Len(l) > EventLogCap THEN Tail(l) ELSE l

\* A send that makes room by dropping the oldest item.
TrySend_DropOldest(ch, x, cap) ==
    IF Len(ch) < cap THEN Append(ch, x) ELSE Append(Tail(ch), x)

\* A non-blocking channel send: the item is dropped when the channel is full.
TrySend(ch, x, cap) ==
    IF Len(ch) < cap THEN Append(ch, x) ELSE ch

\* The log and the channel after addEvent(type, msg).
LogAfter(log, type, msg) == AppendEvent(log, <<type, msg>>)
ChanAfter(ch, type, msg) == TrySend(ch, <<type, msg>>, EventChanCap)

\* s.statsMutex can be taken: a call that locks, changes the statistics and
\* unlocks in one step is taken while no other goroutine holds the lock.
Lockable == statsMutex = "free"

addEvent(type, msg) ==
    /\ Lockable
    /\ events' = LogAfter(events, type, msg)
    /\ evHistory' = Append(evHistory, <<type, msg>>)
    /\ eventChan' = ChanAfter(eventChan, type, msg)

\* Two calls of addEvent in a row.
addEvent2(type1, msg1, type2, msg2) ==
    /\ Lockable
    /\ events' = LogAfter(LogAfter(events, type1, msg1), type2, msg2)
    /\ evHistory' = evHistory \o <<(<<type1, msg1>>), (<<type2, msg2>>)>>
    /\ eventChan' = ChanAfter(ChanAfter(eventChan, type1, msg1), type2, msg2)

updateStatus(s) ==
    /\ Lockable
    /\ status' = s

NumSpawned == Cardinality({c \in Children : child[c] # "none"})

Alive(c) == c # 0 /\ child[c] = "alive"

Ended(c) == c # 0 /\ child[c] \in {"ok", "err"}

\* The monitors between their child's exit and their last status check,
\* when a restart is to follow.
CrashWindow ==
    {m \in Children :
        /\ autoRestart
        /\ \/ mon[m].pc = "wait" /\ Ended(mon[m].tgt)
           \/ mon[m].pc \in {"set_crashed", "delay"}}

\* Every step of the operator's goroutine is a manual action.
Manual(t) ==
    manualIn' = IF t = Operator THEN manualIn \cup CrashWindow ELSE manualIn

\* The call fn, or the Restart it was made by, returns r to its caller.
Return(t, fn, r) ==
    thr' = [thr EXCEPT ![t] =
              [@ EXCEPT !.pc = IF t = Operator THEN "idle" ELSE "done",
                        !.inR = FALSE,
                        !.res = <<IF thr[t].inR THEN "Restart" ELSE fn, r>>,
                        !.wt = 0, !.victim = 0]]

Goto(t, p) ==
    thr' = [thr EXCEPT ![t].pc = p]

----------------------------------------------------------------------------
\* New

\* The goroutines that are followed through addEvent step by step: the two
\* readers, for the ready lines they classify, and the TUI, for its commands.
Appenders == Streams \cup {"tui"}

\* A reader that holds no line.
NoLine == <<"none", 0>>

\* The zero value of the statistics the TUI starts with.
NoStats ==
    [taken |-> FALSE, status |-> "Stopped", players |-> <<>>,
     playerCount |-> 0, events |-> <<>>, shared |-> FALSE]

\* No backup scheduler is started: backups are not enabled.
NoBackup == [c \in Children |-> "off"]

\* A process no sample has read yet.
NoCounters == [ReadBytes |-> 0 - 1, WriteBytes |-> 0 - 1]

\* The sampler's fields as New leaves them: zero values.
InitSampler ==
    /\ lastNetCheck = FALSE
    /\ lastBytesIn = 0
    /\ lastBytesOut = 0
    /\ bandwidthIn = 0
    /\ bandwidthOut = 0
    /\ ioCounters = [c \in Children |-> NoCounters]

\* A run in which the backup manager is not called: empty directories.
InitNoManager ==
    /\ serverDir = <<>>
    /\ backupDirExists = FALSE
    /\ backupDir = <<>>
    /\ now = 0
    /\ maxBackups = 0
    /\ calls = <<>>

\* The supervisor as New leaves it.
InitServer ==
    /\ bk = NoBackup
    /\ ioValues = {}
    /\ InitSampler
    /\ status = "Stopped"
    /\ cmd = 0
    /\ stdin = 0
    /\ child = [c \in Children |-> "none"]
    /\ stdinLog = [c \in Children |-> <<>>]
    /\ events = <<>>
    /\ eventChan = <<>>
    /\ outputChan = <<>>
    /\ sent = <<>>
    /\ evHistory = <<>>
    /\ consoleLines = <<>>
    /\ sendRes = <<0, "", "">>
    /\ tps = [c \in Children |-> "wait"]
    /\ statsMutex = "free"
    /\ ap = [a \in Appenders |-> [pc |-> "idle", ev |-> <<>>]]
    /\ players = <<>>
    /\ playerCount = 0
    /\ maxPlayers = DefaultMaxPlayers
    /\ statsTPS = DefaultTPS
    /\ serverStats = NoStats
    /\ ctxDone = FALSE
    /\ awake = {}
    /\ exited = {}
    /\ quit = FALSE
    /\ restarts = 0
    /\ thr = [t \in Threads |->
                [pc |-> IF t = Operator THEN "idle" ELSE "off",
                 inR |-> FALSE, res |-> <<>>, wt |-> 0, victim |-> 0,
                 tr |-> <<>>]]
    /\ mon = [m \in Children |-> [pc |-> "off", tgt |-> 0, path |-> "none"]]
    /\ rd = [c \in Children |-> [s \in Streams |-> NoLine]]
    /\ linesLeft = MaxLines
    /\ opsLeft = MaxOps
    /\ autoRestart \in BOOLEAN
    /\ raced = {}
    /\ stopFor = {}
    /\ manualIn = {}
    /\ stopIn = {}

InitCommon ==
    /\ InitServer
    /\ InitNoManager

\* A server with no modpack configured.
Init ==
    /\ InitCommon
    /\ modpack = FALSE
    /\ spawnCap = MaxChildren
    /\ lineKinds = {"ready"}
    /\ ticksLeft = 0

\* A server with a modpack configured.
InitModpack ==
    /\ InitCommon
    /\ modpack = TRUE
    /\ spawnCap = 1
    /\ lineKinds = {"ready"}
    /\ ticksLeft = 0

----------------------------------------------------------------------------
\* The child process (the environment)

\* The child ends by itself, with exit code 0 ("ok") or not ("err").
ChildExit(c, code) ==
    /\ child[c] = "alive"
    /\ child' = [child EXCEPT ![c] = code]
    /\ raced' = IF code = "ok" /\ \E t \in Threads :
                                     thr[t].pc = "stop_wait" /\ thr[t].wt = c
                THEN raced \cup {c} ELSE raced
    /\ UNCHANGED <<cmd, stdin, stdinLog, status, restarts, thr, mon, opsLeft,
                   logVars, readVars, envVars, sideVars, stopFor, manualIn, stopIn>>

\* s.cmd.Process.Kill() behind its nil checks: a child that is alive dies by
\* the signal, anything else is left as it is.
Kill(c) ==
    child' = IF Alive(c) THEN [child EXCEPT ![c] = "err"] ELSE child

----------------------------------------------------------------------------
\* SendCommand

\* The write reaches the child only while the pipe's read end is open.
WriteOk == stdin # 0 /\ child[stdin] = "alive"

\* What SendCommand returns: nil, "server not running" when s.stdin is nil,
\* or the error of the write.
SendResult ==
    IF stdin = 0 THEN "not_running"
    ELSE IF WriteOk THEN "ok" ELSE "write_failed"

\* A SendCommand that logs the metrics-polling command like any other.
Send_LogsAll(command) ==
    IF WriteOk
    THEN /\ stdinLog' = [stdinLog EXCEPT ![stdin] = Append(@, command)]
         /\ addEvent("Command", "Executed: " \o command)
    ELSE UNCHANGED <<stdinLog, logVars>>

\* SendCommand(command) by a caller that drops its result.
Send(command) ==
    IF WriteOk
    THEN /\ stdinLog' = [stdinLog EXCEPT ![stdin] = Append(@, command)]
         /\ IF command # "forge tps"
            THEN addEvent("Command", "Executed: " \o command)
            ELSE UNCHANGED logVars
    ELSE UNCHANGED <<stdinLog, logVars>>

\* SendCommand(command) as one step: what it does to the input stream and
\* to the event log; failMsg is the event its caller appends when it fails.
SendCommand(command, failMsg) ==
    IF WriteOk
    THEN Send(command)
    ELSE /\ stdinLog' = stdinLog
         /\ addEvent("Warning", failMsg)

----------------------------------------------------------------------------
\* Start

Start_begin(t) ==
    /\ updateStatus("Starting")
    /\ Goto(t, "start_setup")
    /\ Manual(t)
    /\ UNCHANGED <<procVars, logVars, readVars, envVars, sideVars, restarts, mon,
                   stopFor, stopIn>>

\* exec.CommandContext up to the return: the handle and the input pipe are
\* replaced, the child runs, its monitor and readers are started.
Spawn(t) ==
    /\ NumSpawned < spawnCap
    /\ LET c == NumSpawned + 1
       IN  /\ cmd' = c
           /\ stdin' = c
           /\ child' = [child EXCEPT ![c] = "alive"]
           /\ mon' = [mon EXCEPT ![c].pc = "start"]
    /\ addEvent("Info", "Server starting...")
    /\ Return(t, "Start", "ok")
    /\ UNCHANGED <<status, stdinLog, raced>>

\* A step before exec.CommandContext fails (os.MkdirAll, findServerJar):
\* Start returns the error and nothing else changes.
SetupFails(t) ==
    /\ Return(t, "Start", "err")
    /\ UNCHANGED <<status, procVars, logVars, mon>>

\* A Start that starts its goroutines before it looks at cmd.Start()'s error.
SpawnFails_GoroutinesFirst(t) ==
    /\ NumSpawned < spawnCap
    /\ LET c == NumSpawned + 1
       IN  /\ cmd' = c
           /\ stdin' \in {stdin, c}
           /\ child' = [child EXCEPT ![c] = "unstarted"]
           /\ mon' = [mon EXCEPT ![c].pc = "start"]
    /\ Return(t, "Start", "err")
    /\ UNCHANGED <<status, stdinLog, raced, logVars>>

\* A step after exec.CommandContext fails: s.cmd is a handle with no
\* process.  When it is a pipe that fails, s.stdin is still the old one;
\* when it is cmd.Start(), s.stdin is the new handle's pipe, closed again.
SpawnFails(t) ==
    /\ NumSpawned < spawnCap
    /\ LET c == NumSpawned + 1
       IN  /\ cmd' = c
           /\ stdin' \in {stdin, c}
           /\ child' = [child EXCEPT ![c] = "unstarted"]
    /\ Return(t, "Start", "err")
    /\ UNCHANGED <<status, stdinLog, raced, logVars, mon>>

\* A setup step fails.
StartFails(t) ==
    \/ SetupFails(t)
    \/ SpawnFails(t)

\* With no modpack: os.MkdirAll, findServerJar and the spawn.
Start_setup(t) ==
    /\ thr[t].pc = "start_setup"
    /\ ~modpack
    /\ \/ StartFails(t)
       \/ Spawn(t)
    /\ Manual(t)
    /\ UNCHANGED <<readVars, envVars, sideVars, restarts, opsLeft, stopFor, stopIn>>

\* With a modpack: os.MkdirAll, then installModpack's first lines.
installModpack_begin(t) ==
    /\ thr[t].pc = "start_setup"
    /\ modpack
    /\ \/ SetupFails(t)
       \/ /\ updateStatus("Downloading")
          /\ addEvent("Info", "Downloading modpack")
          /\ Goto(t, "mp_download")
          /\ UNCHANGED <<procVars, mon>>
    /\ Manual(t)
    /\ UNCHANGED <<readVars, envVars, sideVars, restarts, opsLeft, stopFor, stopIn>>

\* DownloadModpack: on failure installModpack returns and Start appends its
\* Error event and returns; on success the status becomes Installing.
installModpack_download(t) ==
    /\ thr[t].pc = "mp_download"
    /\ \/ /\ updateStatus("Installing")
          /\ addEvent("Info", "Installing modpack...")
          /\ Goto(t, "mp_install")
       \/ /\ addEvent("Error", "Modpack installation failed")
          /\ Return(t, "Start", "err")
          /\ UNCHANGED status
    /\ Manual(t)
    /\ UNCHANGED <<procVars, readVars, envVars, sideVars, restarts, mon, opsLeft,
                   stopFor, stopIn>>

\* InstallModpack: the status is left at Installing on either outcome.
installModpack_install(t) ==
    /\ thr[t].pc = "mp_install"
    /\ \/ /\ addEvent("Info", "Modpack installed successfully")
          /\ Goto(t, "start_jar")
       \/ /\ addEvent("Error", "Modpack installation failed")
          /\ Return(t, "Start", "err")
    /\ Manual(t)
    /\ UNCHANGED <<status, procVars, readVars, envVars, sideVars, restarts, mon,
                   opsLeft, stopFor, stopIn>>

\* findServerJar and the spawn, after installModpack.
Start_jar(t) ==
    /\ thr[t].pc = "start_jar"
    /\ \/ StartFails(t)
       \/ Spawn(t)
    /\ Manual(t)
    /\ UNCHANGED <<readVars, envVars, sideVars, restarts, opsLeft, stopFor, stopIn>>

----------------------------------------------------------------------------
\* Stop

\* A Stop whose check lets every status but Stopped go on.
StopProceedsUnlessStopped(st) ==
    st # "Stopped"

\* The statuses from which Stop goes on (its first line).
StopProceeds(st) ==
    st \in {"Running", "Starting"}

\* The call and its status check.  When the check fails Stop returns nil:
\* to the operator, or into Restart, which goes on to its Start.
Stop_begin(t) ==
    /\ IF StopProceeds(status)
       THEN thr' = [thr EXCEPT ![t].pc = "stop_status", ![t].tr = <<>>]
       ELSE IF thr[t].inR
            THEN Goto(t, "restart_start")
            ELSE Return(t, "Stop", "ok")
    /\ Manual(t)
    /\ UNCHANGED <<status, procVars, logVars, readVars, envVars, sideVars, restarts,
                   mon, stopFor>>

Stop_status(t) ==
    /\ thr[t].pc = "stop_status"
    /\ updateStatus("Stopping")
    /\ addEvent("Info", "Stopping server gracefully...")
    /\ stopFor' = IF Alive(cmd) THEN stopFor \cup {cmd} ELSE stopFor
    /\ thr' = [thr EXCEPT ![t].pc = "stop_saveall",
                          ![t].tr = Append(@, "Stopping")]
    /\ Manual(t)
    /\ UNCHANGED <<procVars, readVars, envVars, sideVars, restarts, mon, opsLeft,
                   stopIn>>

Stop_saveall(t) ==
    /\ thr[t].pc = "stop_saveall"
    /\ SendCommand("save-all", "Could not send save-all command")
    /\ thr' = [thr EXCEPT ![t].pc = "stop_stop",
                          ![t].tr = Append(@, "save-all")]
    /\ Manual(t)
    /\ UNCHANGED <<status, cmd, stdin, child, raced, readVars, envVars, sideVars,
                   restarts, mon, opsLeft, stopFor, stopIn>>

\* The terminate command, after the 2 s sleep.  When it cannot be sent the
\* child is killed next; otherwise the wait begins, on the handle s.cmd
\* holds at that moment.
Stop_stop(t) ==
    /\ thr[t].pc = "stop_stop"
    /\ SendCommand("stop", "Could not send stop command, forcing shutdown")
    /\ thr' = [thr EXCEPT ![t].pc = IF WriteOk THEN "stop_wait" ELSE "stop_kill",
                          ![t].wt = IF WriteOk THEN cmd ELSE @,
                          ![t].tr = Append(@, "stop")]
    /\ Manual(t)
    /\ UNCHANGED <<status, cmd, stdin, child, raced, readVars, envVars, sideVars,
                   restarts, mon, opsLeft, stopFor, stopIn>>

Stop_kill(t) ==
    /\ thr[t].pc = "stop_kill"
    /\ Kill(cmd)
    /\ thr' = [thr EXCEPT ![t].pc = "stop_wait", ![t].wt = cmd,
                          ![t].tr = Append(@, "kill")]
    /\ Manual(t)
    /\ UNCHANGED <<status, cmd, stdin, stdinLog, raced, logVars, readVars,
                   envVars, sideVars, restarts, mon, opsLeft, stopFor, stopIn>>

\* The select: done when cmd.Wait() has returned (no handle, or the child
\* has ended), the 30 s timer when the child is still alive.
Stop_wait(t) ==
    /\ thr[t].pc = "stop_wait"
    /\ \/ /\ ~Alive(thr[t].wt)
          /\ addEvent("Info", "Server stopped gracefully")
          /\ thr' = [thr EXCEPT ![t].pc = "stop_final",
                                ![t].tr = Append(@, "exited")]
       \/ /\ Alive(thr[t].wt)
          /\ addEvent("Warning", "Server did not stop in time, forcing kill")
          /\ thr' = [thr EXCEPT ![t].pc = "stop_timeout_kill",
                                ![t].tr = Append(@, "timeout")]
    /\ Manual(t)
    /\ UNCHANGED <<status, procVars, readVars, envVars, sideVars, restarts, mon,
                   opsLeft, stopFor, stopIn>>

Stop_timeout_kill(t) ==
    /\ thr[t].pc = "stop_timeout_kill"
    /\ Kill(cmd)
    /\ thr' = [thr EXCEPT ![t].pc = "stop_final",
                          ![t].tr = Append(@, "kill")]
    /\ Manual(t)
    /\ UNCHANGED <<status, cmd, stdin, stdinLog, raced, logVars, readVars,
                   envVars, sideVars, restarts, mon, opsLeft, stopFor, stopIn>>

\* A Stop that returns without its last status update.
Stop_final_NoStatus(t) ==
    /\ thr[t].pc = "stop_final"
    /\ thr' = [thr EXCEPT ![t] =
                 [@ EXCEPT !.pc = IF thr[t].inR THEN "restart_start"
                                  ELSE IF t = Operator THEN "idle" ELSE "done",
                           !.res = IF thr[t].inR THEN @ ELSE <<"Stop", "ok">>,
                           !.wt = 0,
                           !.tr = Append(@, "Stopped")]]
    /\ Manual(t)
    /\ UNCHANGED <<status, procVars, logVars, readVars, envVars, sideVars, restarts,
                   mon, opsLeft, stopFor, stopIn>>

\* The last status update, and the return.
Stop_final(t) ==
    /\ thr[t].pc = "stop_final"
    /\ updateStatus("Stopped")
    /\ thr' = [thr EXCEPT ![t] =
                 [@ EXCEPT !.pc = IF thr[t].inR THEN "restart_start"
                                  ELSE IF t = Operator THEN "idle" ELSE "done",
                           !.res = IF thr[t].inR THEN @ ELSE <<"Stop", "ok">>,
                           !.wt = 0,
                           !.tr = Append(@, "Stopped")]]
    /\ Manual(t)
    /\ UNCHANGED <<procVars, logVars, readVars, envVars, sideVars, restarts, mon,
                   opsLeft, stopFor, stopIn>>

----------------------------------------------------------------------------
\* Restart

\* A Restart that leaves the counter as it is.
Restart_begin_NoCount(t) ==
    /\ addEvent("Restart", "Restarting server...")
    /\ updateStatus("Restarting")
    /\ thr' = [thr EXCEPT ![t] =
                 [@ EXCEPT !.pc = "restart_stop", !.inR = TRUE,
                           !.victim = IF status \in {"Running", "Starting"}
                                         /\ Alive(cmd)
                                      THEN cmd ELSE 0]]
    /\ Manual(t)
    /\ UNCHANGED <<procVars, readVars, envVars, sideVars, mon, stopFor,
                   stopIn, restarts>>

\* The call, up to its call of Stop: the event, the status, the counter.
Restart_begin(t) ==
    /\ addEvent("Restart", "Restarting server...")
    /\ updateStatus("Restarting")
    /\ restarts' = restarts + 1
    /\ thr' = [thr EXCEPT ![t] =
                 [@ EXCEPT !.pc = "restart_stop", !.inR = TRUE,
                           !.victim = IF status \in {"Running", "Starting"}
                                         /\ Alive(cmd)
                                      THEN cmd ELSE 0]]
    /\ Manual(t)
    /\ UNCHANGED <<procVars, readVars, envVars, sideVars, mon, stopFor, stopIn>>

Restart_stop(t) ==
    /\ thr[t].pc = "restart_stop"
    /\ Stop_begin(t)
    /\ UNCHANGED <<opsLeft, stopIn>>

\* Restart's Start, after the 2 s sleep.
Restart_start(t) ==
    /\ thr[t].pc = "restart_start"
    /\ Start_begin(t)
    /\ UNCHANGED opsLeft

\* go s.Restart() of the exit monitor begins to run.
AutoRestart_begin(t) ==
    /\ t # Operator
    /\ thr[t].pc = "restart_begin"
    /\ Restart_begin(t)
    /\ UNCHANGED opsLeft

----------------------------------------------------------------------------
\* The operator: the calls the presentation layer makes, one at a time.

\* 's' with the status shown as Stopped, and Run's first Start.
OpStart ==
    /\ thr[Operator].pc = "idle"
    /\ opsLeft > 0
    /\ status = "Stopped"
    /\ opsLeft' = opsLeft - 1
    /\ Start_begin(Operator)

\* The operator leaves the TUI: p.Run() returns.
Run_quit ==
    /\ ~quit
    /\ thr[Operator].pc = "idle"
    /\ quit' = TRUE
    /\ UNCHANGED <<status, procVars, logVars, readVars, envVars, ticksLeft,
                   consoleLines, sendRes, tps, statsMutex, ap, statVars,
                   serverStats, ctxDone, awake, exited, bk, restarts, thr,
                   mon, opsLeft, stopFor, manualIn, stopIn>>

\* Stop, at any time: Run's Stop at teardown, and 's' while Running.
OpStop ==
    /\ thr[Operator].pc = "idle"
    /\ opsLeft > 0
    /\ opsLeft' = opsLeft - 1
    /\ stopIn' = stopIn \cup {m \in Children : mon[m].pc = "delay"}
    /\ Stop_begin(Operator)

\* Run's last call, after the TUI has ended: m.srv.Stop().
Run_stop ==
    /\ quit
    /\ OpStop

\* 'r', at any time.
OpRestart ==
    /\ thr[Operator].pc = "idle"
    /\ opsLeft > 0
    /\ opsLeft' = opsLeft - 1
    /\ Restart_begin(Operator)

\* What the operator types into the command line.
Commands == {"say hi", "forge tps"}

\* Enter in the command line: SendCommand, called from the TUI's own loop
\* and so beside any lifecycle call still running; its result is dropped.
OpSend(command) ==
    /\ opsLeft > 0
    /\ opsLeft' = opsLeft - 1
    /\ Send(command)
    /\ sendRes' = <<sendRes[1] + 1, command, SendResult>>
    /\ UNCHANGED <<status, cmd, stdin, child, raced, readVars, envVars,
                   ticksLeft, consoleLines, tps, statsMutex, ap, statVars, serverStats,
                   loopVars, restarts,
                   thr, mon, stopFor, manualIn, stopIn>>

----------------------------------------------------------------------------
\* requestTPSLoop

\* The timer loops, by name and the child they were started with.
Loops == {"stats", "tps", "backup"} \X Children

\* The loops Start has started and that have not returned.
LoopRunning(l) ==
    /\ mon[l[2]].pc # "off"
    /\ l[1] = "backup" => bk[l[2]] # "off"
    /\ l \notin exited

\* The 15 s sleep before the loop is over.
requestTPSLoop_wake(c) ==
    /\ LoopRunning(<<"tps", c>>)
    /\ c \notin awake
    /\ awake' = awake \cup {c}
    /\ UNCHANGED <<status, procVars, logVars, readVars, envVars, ticksLeft,
                   consoleLines, sendRes, tps, statsMutex, ap, statVars,
                   serverStats, ctxDone, exited, bk, quit, restarts, thr,
                   mon, opsLeft, stopFor, manualIn, stopIn>>

\* The ticker fires in the loop that was started with child c: the status
\* is read.  The select may take the ticker whether or not the context is
\* cancelled.
requestTPSLoop_tick(c) ==
    /\ LoopRunning(<<"tps", c>>)
    /\ c \in awake
    /\ tps[c] = "wait"
    /\ ticksLeft > 0
    /\ ticksLeft' = ticksLeft - 1
    /\ tps' = [tps EXCEPT ![c] = IF status = "Running" THEN "send" ELSE "wait"]
    /\ UNCHANGED <<status, procVars, logVars, readVars, envVars,
                   consoleLines, sendRes, statsMutex, ap, statVars, serverStats,
                   loopVars, restarts, thr,
                   mon, opsLeft, stopFor, manualIn, stopIn>>

\* The status was Running: SendCommand("forge tps").
requestTPSLoop_send(c) ==
    /\ tps[c] = "send"
    /\ Send("forge tps")
    /\ tps' = [tps EXCEPT ![c] = "wait"]
    /\ UNCHANGED <<status, cmd, stdin, child, raced, readVars, envVars,
                   ticksLeft, consoleLines, sendRes, statsMutex, ap, statVars, serverStats,
                   loopVars, restarts,
                   thr, mon, opsLeft, stopFor, manualIn, stopIn>>

\* What a loop that returns leaves as it is.
LoopExit(l) ==
    /\ LoopRunning(l)
    /\ ctxDone
    /\ exited' = exited \cup {l}
    /\ UNCHANGED <<status, procVars, logVars, readVars, envVars, ticksLeft,
                   consoleLines, sendRes, tps, statsMutex, ap, statVars,
                   serverStats, ctxDone, awake, bk, quit, restarts, thr,
                   mon, opsLeft, stopFor, manualIn, stopIn>>

\* The select takes <-s.ctx.Done(): the loop returns.  It is at its select
\* only after its first sleep and between two ticks.
requestTPSLoop_exit(c) ==
    /\ c \in awake
    /\ tps[c] = "wait"
    /\ LoopExit(<<"tps", c>>)

----------------------------------------------------------------------------
\* backupScheduler

\* The ticker fires in the scheduler that was started with child c: the
\* status is read.  The select may take the ticker whether or not the
\* context is cancelled.
backupScheduler_tick(c) ==
    /\ LoopRunning(<<"backup", c>>)
    /\ bk[c] = "wait"
    /\ ticksLeft > 0
    /\ ticksLeft' = ticksLeft - 1
    /\ bk' = [bk EXCEPT ![c] = IF status = "Running" THEN "begin" ELSE "wait"]
    /\ UNCHANGED <<status, procVars, logVars, readVars, envVars,
                   consoleLines, sendRes, tps, statsMutex, ap, statVars,
                   serverStats, ctxDone, awake, exited, quit, restarts, thr,
                   mon, opsLeft, stopFor, manualIn, stopIn>>

\* The status was Running: performBackup begins with its event.
performBackup_begin(c) ==
    /\ bk[c] = "begin"
    /\ addEvent("Backup", "Starting world backup...")
    /\ bk' = [bk EXCEPT ![c] = "save_off"]
    /\ UNCHANGED <<status, procVars, readVars, envVars, ticksLeft,
                   consoleLines, sendRes, tps, statsMutex, ap, statVars,
                   serverStats, ctxDone, awake, exited, quit, restarts, thr,
                   mon, opsLeft, stopFor, manualIn, stopIn>>

\* One of performBackup's three commands, and the step after it.
performBackup_send(c, at, command, then) ==
    /\ bk[c] = at
    /\ Send(command)
    /\ bk' = [bk EXCEPT ![c] = then]
    /\ UNCHANGED <<status, cmd, stdin, child, raced, readVars, envVars,
                   ticksLeft, consoleLines, sendRes, tps, statsMutex, ap,
                   statVars, serverStats, ctxDone, awake, exited, quit,
                   restarts, thr, mon, opsLeft, stopFor, manualIn, stopIn>>

performBackup_save_off(c) ==
    performBackup_send(c, "save_off", "save-off", "save_all")

performBackup_save_all(c) ==
    performBackup_send(c, "save_all", "save-all flush", "create")

\* A performBackup that returns when CreateBackup fails.
performBackup_create_Returns(c) ==
    /\ bk[c] = "create"
    /\ \/ /\ addEvent("Backup", "Backup completed successfully")
          /\ bk' = [bk EXCEPT ![c] = "save_on"]
       \/ /\ addEvent("Error", "Backup failed")
          /\ bk' = [bk EXCEPT ![c] = "wait"]
    /\ UNCHANGED <<status, procVars, readVars, envVars, ticksLeft,
                   consoleLines, sendRes, tps, statsMutex, ap, statVars,
                   serverStats, ctxDone, awake, exited, quit, restarts, thr,
                   mon, opsLeft, stopFor, manualIn, stopIn>>

\* After the 2 s sleep: CreateBackup succeeds or fails, and the event says
\* which.
performBackup_create(c) ==
    /\ bk[c] = "create"
    /\ \/ addEvent("Backup", "Backup completed successfully")
       \/ addEvent("Error", "Backup failed")
    /\ bk' = [bk EXCEPT ![c] = "save_on"]
    /\ UNCHANGED <<status, procVars, readVars, envVars, ticksLeft,
                   consoleLines, sendRes, tps, statsMutex, ap, statVars,
                   serverStats, ctxDone, awake, exited, quit, restarts, thr,
                   mon, opsLeft, stopFor, manualIn, stopIn>>

performBackup_save_on(c) ==
    performBackup_send(c, "save_on", "save-on", "wait")

\* The select takes <-s.ctx.Done(): the scheduler returns.
backupScheduler_exit(c) ==
    /\ bk[c] = "wait"
    /\ LoopExit(<<"backup", c>>)

----------------------------------------------------------------------------
\* The context

\* s.cancelFunc is called.
cancelFunc ==
    /\ ~ctxDone
    /\ ctxDone' = TRUE
    /\ UNCHANGED <<status, procVars, logVars, readVars, envVars, ticksLeft,
                   consoleLines, sendRes, tps, statsMutex, ap, statVars,
                   serverStats, awake, exited, bk, quit, restarts, thr, mon,
                   opsLeft, stopFor, manualIn, stopIn>>

----------------------------------------------------------------------------
\* monitorProcess

\* What cmd.Wait() can return to the monitor: TRUE is an error.  A child
\* that ended with a non-zero code or by a signal gives an error.  For exit
\* code 0 there is none, unless Stop's own cmd.Wait() was pending on the same
\* handle: the two calls race for the exit status and the loser gets an error.
WaitErrs(c) ==
    IF child[c] = "err" THEN {TRUE}
    ELSE IF c \in raced THEN {TRUE, FALSE}
    ELSE {FALSE}

\* A monitor that takes every exit outside a Stop for a crash.
MonitorBranch_AnyExit(st, err) ==
    IF st = "Stopping" THEN "set_stopped" ELSE "set_crashed"

\* The branch the monitor takes on the status it reads and on Wait's result.
MonitorBranch(st, err) ==
    IF st = "Stopping" THEN "set_stopped"
    ELSE IF err THEN "set_crashed"
    ELSE "set_clean"

\* The goroutine begins: it reads s.cmd and blocks in Wait on that handle.
monitorProcess_begin(m) ==
    /\ mon[m].pc = "start"
    /\ mon' = [mon EXCEPT ![m].pc = IF cmd = 0 THEN "done" ELSE "wait",
                          ![m].tgt = cmd]
    /\ UNCHANGED <<status, procVars, logVars, readVars, envVars, sideVars, restarts,
                   thr, opsLeft, stopFor, manualIn, stopIn>>

\* Wait returns and the status is read.
monitorProcess_exit(m) ==
    /\ mon[m].pc = "wait"
    /\ Ended(mon[m].tgt)
    /\ \E err \in WaitErrs(mon[m].tgt) :
          mon' = [mon EXCEPT ![m].pc = MonitorBranch(status, err)]
    /\ UNCHANGED <<status, procVars, logVars, readVars, envVars, sideVars, restarts,
                   thr, opsLeft, stopFor, manualIn, stopIn>>

\* The exit was expected (Stopping), or it was clean (exit code 0).
monitorProcess_stopped(m) ==
    /\ mon[m].pc \in {"set_stopped", "set_clean"}
    /\ updateStatus("Stopped")
    /\ mon' = [mon EXCEPT ![m].pc = "done",
                          ![m].path = IF mon[m].pc = "set_stopped"
                                      THEN "expected" ELSE "clean"]
    /\ manualIn' = manualIn \ {m}
    /\ UNCHANGED <<procVars, logVars, readVars, envVars, sideVars, restarts, thr,
                   opsLeft, stopFor, stopIn>>

\* The exit was not expected: the status, the Error event and, with
\* auto-restart, the notice before the 5 s sleep.
monitorProcess_crashed(m) ==
    /\ mon[m].pc = "set_crashed"
    /\ updateStatus("Crashed")
    /\ IF autoRestart
       THEN addEvent2("Error", "Server crashed",
                      "Restart", "Auto-restarting in 5 seconds...")
       ELSE addEvent("Error", "Server crashed")
    /\ mon' = [mon EXCEPT ![m].pc = IF autoRestart THEN "delay" ELSE "done",
                          ![m].path = "crash"]
    /\ UNCHANGED <<procVars, readVars, envVars, sideVars, restarts, thr, opsLeft,
                   stopFor, manualIn, stopIn>>

\* After the 5 s sleep: go s.Restart() if the status is still Crashed.
monitorProcess_delayed(m) ==
    /\ mon[m].pc = "delay"
    /\ thr' = IF status = "Crashed"
              THEN [thr EXCEPT ![m].pc = "restart_begin"]
              ELSE thr
    /\ mon' = [mon EXCEPT ![m].pc = "done"]
    /\ manualIn' = manualIn \ {m}
    /\ stopIn' = stopIn \ {m}
    /\ UNCHANGED <<status, procVars, logVars, readVars, envVars, sideVars, restarts,
                   opsLeft, stopFor>>

----------------------------------------------------------------------------
\* readOutput and parseOutput

\* The lines a child prints, by what parseOutput does with them: the ready
\* marker, and a line that matches none of its patterns.
LineKinds == {"ready", "other"}

\* A reader whose send waits for room in the output channel.
readOutput_scan_Blocking(c, s) ==
    /\ child[c] = "alive"
    /\ linesLeft > 0
    /\ rd[c][s] = NoLine
    /\ Len(outputChan) < OutputChanCap
    /\ \E k \in lineKinds :
          LET l == <<k, Len(sent) + 1>>
          IN  /\ rd' = [rd EXCEPT ![c][s] = l]
              /\ outputChan' = Append(outputChan, l)
              /\ sent' = Append(sent, l)
    /\ linesLeft' = linesLeft - 1
    /\ UNCHANGED <<status, procVars, logVars, envVars, sideVars, restarts,
                   thr, mon, opsLeft, stopFor, manualIn, stopIn>>

\* scanner.Scan() returns a line the child has printed; it is offered to the
\* output channel.  A line is its kind and its place among the lines scanned.
readOutput_scan(c, s) ==
    /\ child[c] = "alive"
    /\ linesLeft > 0
    /\ rd[c][s] = NoLine
    /\ \E k \in lineKinds :
          LET l == <<k, Len(sent) + 1>>
          IN  /\ rd' = [rd EXCEPT ![c][s] = l]
              /\ outputChan' = TrySend(outputChan, l, OutputChanCap)
              /\ sent' = Append(sent, l)
    /\ linesLeft' = linesLeft - 1
    /\ UNCHANGED <<status, procVars, logVars, envVars, sideVars, restarts, thr, mon,
                   opsLeft, stopFor, manualIn, stopIn>>

\* The patterns parseOutput tests a line against.
Categories ==
    {"ready", "join", "leave", "list", "tps", "chat", "ip", "uuid", "swallow",
     "warn", "error"}

\* What no pattern captured.
NoCapture ==
    [m |-> {}, join |-> "", leave |-> "", cur |-> 0, max |-> 0, val |-> 0,
     chat |-> "", ipName |-> "", ip |-> "", uuidName |-> "", uuid |-> ""]

\* The lines a child may print, each with the patterns that match it and
\* what they capture.  A number Atoi or ParseFloat is given is the value of
\* its digits; ParseFloat's error on "1.2.3" leaves 0.
\*   ready      Done (1.5s)! For help, type "help"
\*   other      Preparing spawn area
\*   joinA      [Server thread/INFO]: Alice joined the game
\*   joinB      [Server thread/INFO]: Bob joined the game
\*   leaveA     [Server thread/INFO]: Alice left the game
\*   list       There are 3 of a max of 20 players online
\*   tps        Mean TPS: 19.87
\*   tpsBad     Mean TPS: 1.2.3
\*   chat       <Alice> hi
\*   ipA        Alice[/10.0.0.1:5000] logged in
\*   uuidA      UUID of player Alice is ab-12
\*   ticktime   Mean tick time: 2.5 ms
\*   warn       [WARN] low memory
\*   error      [ERROR] tick failed
\*   joinChat   [Server thread/INFO]: <Bob> hi: Alice joined the game
\*   readyJoin  [Server thread/INFO]: Done (1.5s)! For help, type "help": Bob joined the game
\*   leaveList  [Server thread/INFO]: There are 3 of a max of 20 players online: Alice left the game
\*   tpsWarn    [WARN] Mean TPS: 5.00
\*   chatIp     <Bob> Alice[/10.0.0.1:5000] logged in
\*   warnError  [WARN] [ERROR] tick failed
Line(k) ==
    CASE k = "ready" -> [NoCapture EXCEPT !.m = {"ready"}]
      [] k = "other" -> NoCapture
      [] k = "joinA" -> [NoCapture EXCEPT !.m = {"join"}, !.join = "Alice"]
      [] k = "joinB" -> [NoCapture EXCEPT !.m = {"join"}, !.join = "Bob"]
      [] k = "leaveA" -> [NoCapture EXCEPT !.m = {"leave"}, !.leave = "Alice"]
      [] k = "list" ->
            [NoCapture EXCEPT !.m = {"list"}, !.cur = 3, !.max = 20]
      [] k = "tps" ->
            [NoCapture EXCEPT !.m = {"tps", "swallow"}, !.val = 1987]
      [] k = "tpsBad" ->
            [NoCapture EXCEPT !.m = {"tps", "swallow"}, !.val = 0]
      [] k = "chat" -> [NoCapture EXCEPT !.m = {"chat"}, !.chat = "<Alice> hi"]
      [] k = "ipA" ->
            [NoCapture EXCEPT !.m = {"ip"}, !.ipName = "Alice",
                              !.ip = "10.0.0.1"]
      [] k = "uuidA" ->
            [NoCapture EXCEPT !.m = {"uuid"}, !.uuidName = "Alice",
                              !.uuid = "ab-12"]
      [] k = "ticktime" -> [NoCapture EXCEPT !.m = {"swallow"}]
      [] k = "warn" -> [NoCapture EXCEPT !.m = {"warn"}]
      [] k = "error" -> [NoCapture EXCEPT !.m = {"error"}]
      [] k = "joinChat" ->
            [NoCapture EXCEPT !.m = {"join", "chat"}, !.join = "Alice",
                              !.chat = "<Bob> hi: Alice joined the game"]
      [] k = "readyJoin" ->
            [NoCapture EXCEPT !.m = {"ready", "join"}, !.join = "Bob"]
      [] k = "leaveList" ->
            [NoCapture EXCEPT !.m = {"leave", "list"}, !.leave = "Alice",
                              !.cur = 3, !.max = 20]
      [] k = "tpsWarn" ->
            [NoCapture EXCEPT !.m = {"tps", "swallow", "warn"}, !.val = 500]
      [] k = "chatIp" ->
            [NoCapture EXCEPT !.m = {"chat", "ip"}, !.ipName = "Alice",
                              !.ip = "10.0.0.1",
                              !.chat = "<Bob> Alice[/10.0.0.1:5000] logged in"]
      [] k = "warnError" -> [NoCapture EXCEPT !.m = {"warn", "error"}]

AllKinds ==
    {"ready", "other", "joinA", "joinB", "leaveA", "list", "tps", "tpsBad",
     "chat", "ipA", "uuidA", "ticktime", "warn", "error", "joinChat",
     "readyJoin", "leaveList", "tpsWarn", "chatIp", "warnError"}

\* A classifier that tests for chat before it tests for a join.
Category_ChatFirst(k) ==
    LET m == Line(k).m
    IN  IF "ready" \in m THEN "ready"
        ELSE IF "chat" \in m THEN "chat"
        ELSE IF "join" \in m THEN "join"
        ELSE IF "leave" \in m THEN "leave"
        ELSE IF "list" \in m THEN "list"
        ELSE IF "tps" \in m THEN "tps"
        ELSE IF "ip" \in m THEN "ip"
        ELSE IF "uuid" \in m THEN "uuid"
        ELSE IF "swallow" \in m THEN "swallow"
        ELSE IF "warn" \in m THEN "warn"
        ELSE IF "error" \in m THEN "error"
        ELSE "none"

\* The branch of parseOutput a line takes: its tests, in the order of the
\* code, each returning.
Category(k) ==
    LET m == Line(k).m
    IN  IF "ready" \in m THEN "ready"
        ELSE IF "join" \in m THEN "join"
        ELSE IF "leave" \in m THEN "leave"
        ELSE IF "list" \in m THEN "list"
        ELSE IF "tps" \in m THEN "tps"
        ELSE IF "chat" \in m THEN "chat"
        ELSE IF "ip" \in m THEN "ip"
        ELSE IF "uuid" \in m THEN "uuid"
        ELSE IF "swallow" \in m THEN "swallow"
        ELSE IF "warn" \in m THEN "warn"
        ELSE IF "error" \in m THEN "error"
        ELSE "none"

\* Whether a name is in the registry.
Present(ps, name) == \E i \in 1..Len(ps) : ps[i].name = name

\* The place of the first entry of a name.
IndexOf(ps, name) ==
    CHOOSE i \in 1..Len(ps) :
        /\ ps[i].name = name
        /\ \A j \in 1..(i - 1) : ps[j].name # name

\* A registry that takes every join as a new player.
addPlayer_NoLookup(name, at) ==
    /\ players' = Append(players, [name |-> name, joinedAt |-> at,
                                   uuid |-> "", ip |-> ""])
    /\ playerCount' = Len(players')

\* A registry that restamps a player who joins again.
addPlayer_Restamp(name, at) ==
    IF Present(players, name)
    THEN /\ players' = [players EXCEPT
                           ![IndexOf(players, name)].joinedAt = at]
         /\ UNCHANGED playerCount
    ELSE /\ players' = Append(players, [name |-> name, joinedAt |-> at,
                                        uuid |-> "", ip |-> ""])
         /\ playerCount' = Len(players')

\* addPlayer: nothing for a name already present; else the entry is appended
\* and the count recomputed.
addPlayer(name, at) ==
    /\ Lockable
    /\ IF Present(players, name)
       THEN UNCHANGED <<players, playerCount>>
       ELSE /\ players' = Append(players, [name |-> name, joinedAt |-> at,
                                           uuid |-> "", ip |-> ""])
            /\ playerCount' = Len(players')

\* removePlayer: the first entry of the name is cut out; the count is
\* recomputed either way.
removePlayer(name) ==
    /\ Lockable
    /\ players' =
          IF Present(players, name)
          THEN LET i == IndexOf(players, name)
               IN  SubSeq(players, 1, i - 1) \o
                   SubSeq(players, i + 1, Len(players))
          ELSE players
    /\ playerCount' = Len(players')

updatePlayerUUID(name, uuid) ==
    /\ Lockable
    /\ players' =
          IF Present(players, name)
          THEN [players EXCEPT ![IndexOf(players, name)].uuid = uuid]
          ELSE players
    /\ UNCHANGED playerCount

\* An address line that enters a player it does not find.
updatePlayerIP_Adds(name, ip) ==
    /\ Lockable
    /\ players' =
          IF Present(players, name)
          THEN [players EXCEPT ![IndexOf(players, name)].ip = ip]
          ELSE Append(players, [name |-> name, joinedAt |-> 0,
                                uuid |-> "", ip |-> ip])
    /\ UNCHANGED playerCount

updatePlayerIP(name, ip) ==
    /\ Lockable
    /\ players' =
          IF Present(players, name)
          THEN [players EXCEPT ![IndexOf(players, name)].ip = ip]
          ELSE players
    /\ UNCHANGED playerCount

\* A population report that is taken for a roll call: the registry is
\* cleared.
parseOutput_list_Clears(l) ==
    /\ playerCount' = l.cur
    /\ maxPlayers' = l.max
    /\ players' = <<>>
    /\ UNCHANGED <<status, statsTPS, logVars>>

\* The population report: both counts are set from the line.
parseOutput_list(l) ==
    /\ Lockable
    /\ playerCount' = l.cur
    /\ maxPlayers' = l.max
    /\ UNCHANGED <<status, players, statsTPS, logVars>>

\* A TPS branch that also logs the line.
parseOutput_tps_Logs(l) ==
    /\ statsTPS' = l.val
    /\ addEvent("Info", "Mean TPS")
    /\ UNCHANGED <<status, players, playerCount, maxPlayers>>

\* The TPS line: the metric is set from the line.
parseOutput_tps(l) ==
    /\ Lockable
    /\ statsTPS' = l.val
    /\ UNCHANGED <<status, players, playerCount, maxPlayers, logVars>>

\* The branches of parseOutput after the ready marker, on line k scanned
\* at place `at'.
parseOutput_branch(k, at) ==
    LET l == Line(k)
        cat == Category(k)
    IN  CASE cat = "join" ->
               /\ addPlayer(l.join, at)
               /\ addEvent("PlayerJoin", l.join \o " joined the game")
               /\ UNCHANGED <<status, maxPlayers, statsTPS>>
          [] cat = "leave" ->
               /\ removePlayer(l.leave)
               /\ addEvent("PlayerLeave", l.leave \o " left the game")
               /\ UNCHANGED <<status, maxPlayers, statsTPS>>
          [] cat = "list" -> parseOutput_list(l)
          [] cat = "tps" -> parseOutput_tps(l)
          [] cat = "chat" ->
               /\ addEvent("Chat", l.chat)
               /\ UNCHANGED <<status, statVars>>
          [] cat = "ip" ->
               /\ updatePlayerIP(l.ipName, l.ip)
               /\ UNCHANGED <<status, maxPlayers, statsTPS, logVars>>
          [] cat = "uuid" ->
               /\ updatePlayerUUID(l.uuidName, l.uuid)
               /\ UNCHANGED <<status, maxPlayers, statsTPS, logVars>>
          [] cat = "swallow" ->
               UNCHANGED <<status, statVars, logVars>>
          [] cat = "warn" ->
               /\ addEvent("Warning", k)
               /\ UNCHANGED <<status, statVars>>
          [] cat = "error" ->
               /\ addEvent("Error", k)
               /\ UNCHANGED <<status, statVars>>

\* parseOutput on a line that takes one of the branches after the ready
\* marker.
parseOutput_classify(c, s) ==
    /\ rd[c][s] # NoLine
    /\ Category(rd[c][s][1]) \notin {"ready", "none"}
    /\ parseOutput_branch(rd[c][s][1], rd[c][s][2])
    /\ rd' = [rd EXCEPT ![c][s] = NoLine]
    /\ UNCHANGED <<procVars, linesLeft, outputChan, sent, envVars,
                   ticksLeft, consoleLines, sendRes, tps, statsMutex, ap,
                   serverStats, loopVars, restarts, thr, mon, opsLeft,
                   stopFor, manualIn, stopIn>>

\* s.process: nil until a child has been started, then the handle made for
\* the latest one.
process ==
    LET started == {c \in Children : child[c] \in {"alive", "ok", "err"}}
    IN  IF started = {} THEN 0
        ELSE CHOOSE c \in started : \A d \in started : d <= c

\* An unsigned subtraction in a word of CounterBits bits.
Wrap(d) ==
    IF d >= 0 THEN d ELSE d + 2^CounterBits

\* The network block of updateResourceStats on process p.  IOCounters fails
\* and nothing is stored, or it reports the process's cumulative counters,
\* which never decrease: the rates are set from the stored counters when
\* s.lastNetCheck is not zero, and the counters and the time are stored.
\* Two samples are some time apart, so elapsed > 0; the rate is per tick.
IOCounters(p) ==
    \/ UNCHANGED netVars
    \/ \E r \in ioValues, w \in ioValues :
          /\ child[p] = "alive"
          /\ r >= ioCounters[p].ReadBytes
          /\ w >= ioCounters[p].WriteBytes
          /\ ioCounters' = [ioCounters EXCEPT
                               ![p] = [ReadBytes |-> r, WriteBytes |-> w]]
          /\ IF lastNetCheck
             THEN /\ bandwidthIn' = Wrap(r - lastBytesIn)
                  /\ bandwidthOut' = Wrap(w - lastBytesOut)
             ELSE UNCHANGED <<bandwidthIn, bandwidthOut>>
          /\ lastBytesIn' = r
          /\ lastBytesOut' = w
          /\ lastNetCheck' = TRUE

\* A sampling tick that leaves the player count alone.
updateResourceStats_NoCount(c) ==
    /\ LoopRunning(<<"stats", c>>)
    /\ ticksLeft > 0
    /\ ticksLeft' = ticksLeft - 1
    /\ UNCHANGED playerCount
    /\ IF process = 0
       THEN UNCHANGED netVars
       ELSE Lockable /\ IOCounters(process)
    /\ UNCHANGED <<status, procVars, logVars, readVars, confVars, fsVars,
                   consoleLines, sendRes, tps, statsMutex, ap, players,
                   maxPlayers, statsTPS, serverStats, loopVars, restarts,
                   thr, mon, opsLeft, stopFor, manualIn, stopIn>>

\* A tick of the updateStatsLoop started with child c: updateResourceStats
\* returns at once when there is no process handle; else, under the lock,
\* it samples the process and recomputes the player count.
updateResourceStats(c) ==
    /\ LoopRunning(<<"stats", c>>)
    /\ ticksLeft > 0
    /\ ticksLeft' = ticksLeft - 1
    /\ IF process = 0
       THEN UNCHANGED <<playerCount, netVars>>
       ELSE /\ Lockable
            /\ IOCounters(process)
            /\ playerCount' = Len(players)
    /\ UNCHANGED <<status, procVars, logVars, readVars, confVars, fsVars,
                   consoleLines, sendRes, tps, statsMutex, ap, players,
                   maxPlayers, statsTPS, serverStats, loopVars, restarts,
                   thr, mon, opsLeft, stopFor, manualIn, stopIn>>

\* The select of updateStatsLoop takes <-s.ctx.Done(): the loop returns.
updateStatsLoop_exit(c) ==
    LoopExit(<<"stats", c>>)

\* parseOutput on the ready marker.
parseOutput_ready(c, s) ==
    /\ rd[c][s] # NoLine
    /\ Category(rd[c][s][1]) = "ready"
    /\ updateStatus("Running")
    /\ addEvent("Info", "Server started successfully!")
    /\ rd' = [rd EXCEPT ![c][s] = NoLine]
    /\ UNCHANGED <<procVars, linesLeft, outputChan, sent, envVars, sideVars, restarts, thr,
                   mon, opsLeft, stopFor, manualIn, stopIn>>

\* parseOutput on a line that matches none of its patterns.
parseOutput_other(c, s) ==
    /\ rd[c][s] # NoLine
    /\ Category(rd[c][s][1]) = "none"
    /\ rd' = [rd EXCEPT ![c][s] = NoLine]
    /\ UNCHANGED <<status, procVars, logVars, linesLeft, outputChan, sent,
                   envVars, sideVars, restarts, thr, mon, opsLeft, stopFor,
                   manualIn, stopIn>>

----------------------------------------------------------------------------
\* addEvent, step by step

\* What a goroutine inside addEvent leaves as it is.
quietVars ==
    <<status, procVars, rd, outputChan, sent, envVars, ticksLeft,
      consoleLines, sendRes, tps, statVars, serverStats, loopVars, restarts,
      thr, mon, stopFor, manualIn, stopIn>>

\* The event each goroutine appends: a reader the one for a ready line, the
\* TUI the one for a command it has sent.
EventOf(a) ==
    IF a = "tui" THEN <<"Command", "Executed: say hi">>
    ELSE <<"Info", "Server started successfully!">>

\* The call: the event is built.
addEvent_call(a) ==
    /\ ap[a].pc = "idle"
    /\ IF a = "tui"
       THEN opsLeft > 0 /\ opsLeft' = opsLeft - 1 /\ UNCHANGED linesLeft
       ELSE linesLeft > 0 /\ linesLeft' = linesLeft - 1 /\ UNCHANGED opsLeft
    /\ ap' = [ap EXCEPT ![a] = [pc |-> "lock", ev |-> EventOf(a)]]
    /\ UNCHANGED <<quietVars, logVars, statsMutex>>

\* s.statsMutex.Lock()
addEvent_lock(a) ==
    /\ ap[a].pc = "lock"
    /\ statsMutex = "free"
    /\ statsMutex' = a
    /\ ap' = [ap EXCEPT ![a].pc = "append"]
    /\ UNCHANGED <<quietVars, logVars, linesLeft, opsLeft>>

\* The append, and the trim beyond the cap.
addEvent_append(a) ==
    /\ ap[a].pc = "append"
    /\ events' = AppendEvent(events, ap[a].ev)
    /\ evHistory' = Append(evHistory, ap[a].ev)
    /\ ap' = [ap EXCEPT ![a].pc = "unlock"]
    /\ UNCHANGED <<quietVars, eventChan, statsMutex, linesLeft, opsLeft>>

\* An addEvent that keeps the lock until it returns.
addEvent_unlock_Deferred(a) ==
    /\ ap[a].pc = "unlock"
    /\ ap' = [ap EXCEPT ![a].pc = "send"]
    /\ UNCHANGED <<quietVars, logVars, statsMutex, linesLeft, opsLeft>>

\* s.statsMutex.Unlock()
addEvent_unlock(a) ==
    /\ ap[a].pc = "unlock"
    /\ statsMutex' = "free"
    /\ ap' = [ap EXCEPT ![a].pc = "send"]
    /\ UNCHANGED <<quietVars, logVars, linesLeft, opsLeft>>

\* The select: the event is sent if the channel has room, and the call
\* returns.
addEvent_send(a) ==
    /\ ap[a].pc = "send"
    /\ eventChan' = TrySend(eventChan, ap[a].ev, EventChanCap)
    /\ ap' = [ap EXCEPT ![a] = [pc |-> "idle", ev |-> <<>>]]
    /\ UNCHANGED <<quietVars, events, evHistory, statsMutex, linesLeft,
                   opsLeft>>

\* A consumer of EventChan() receives an event.
EventChan_receive ==
    /\ ticksLeft > 0
    /\ eventChan # <<>>
    /\ ticksLeft' = ticksLeft - 1
    /\ eventChan' = Tail(eventChan)
    /\ UNCHANGED <<status, procVars, events, evHistory, readVars, envVars,
                   consoleLines, sendRes, tps, statsMutex, ap, statVars, serverStats,
                   loopVars, restarts, thr,
                   mon, opsLeft, stopFor, manualIn, stopIn>>

----------------------------------------------------------------------------
\* The TUI's tick

\* A GetStats that hands out the statistics as they are: the player list of
\* the copy is the supervisor's own array.
GetStats_Shallow ==
    [taken |-> TRUE, status |-> status, players |-> players,
     playerCount |-> playerCount, events |-> events, shared |-> TRUE]

\* GetStats: a copy of the statistics, the player list and the event list
\* copied into arrays of their own.
GetStats ==
    [taken |-> TRUE, status |-> status, players |-> players,
     playerCount |-> playerCount, events |-> events, shared |-> FALSE]

\* The player list the holder of a snapshot sees.  A list that shares the
\* supervisor's array shows, in as many places as it had, what the
\* supervisor has written there since.
SeenPlayers(snap) ==
    IF snap.shared
    THEN [i \in 1..Len(snap.players) |->
            IF i <= Len(players) THEN players[i] ELSE snap.players[i]]
    ELSE snap.players

\* The holder of a snapshot writes into its first player entry.  The write
\* lands in the supervisor's registry if the list shares its array.
Snapshot_write ==
    /\ opsLeft > 0
    /\ serverStats.taken
    /\ Len(serverStats.players) > 0
    /\ opsLeft' = opsLeft - 1
    /\ serverStats' = [serverStats EXCEPT !.players[1].uuid = "edited"]
    /\ IF serverStats.shared /\ Len(players) > 0
       THEN players' = [players EXCEPT ![1].uuid = "edited"]
       ELSE UNCHANGED players
    /\ UNCHANGED <<status, procVars, logVars, readVars, envVars, ticksLeft,
                   consoleLines, sendRes, tps, statsMutex, ap, playerCount,
                   maxPlayers, statsTPS, loopVars, restarts, thr, mon,
                   stopFor, manualIn, stopIn>>

\* The tick: the statistics are fetched; one line is taken from the output
\* channel, if there is one, and appended to the console buffer, which drops
\* its oldest line beyond its capacity.
TUI_tick ==
    /\ ticksLeft > 0
    /\ ticksLeft' = ticksLeft - 1
    /\ IF outputChan # <<>>
       THEN /\ outputChan' = Tail(outputChan)
            /\ consoleLines' =
                 LET l == Append(consoleLines, Head(outputChan))
                 IN  IF Len(l) > ConsoleCap THEN Tail(l) ELSE l
       ELSE UNCHANGED <<outputChan, consoleLines>>
    /\ serverStats' = GetStats
    /\ UNCHANGED <<status, procVars, logVars, rd, linesLeft, sent, envVars,
                   sendRes, tps, statsMutex, ap, statVars, loopVars,
                   restarts, thr, mon, opsLeft, stopFor, manualIn, stopIn>>

----------------------------------------------------------------------------
\* The supervisor with its child, monitors and readers

StopRestartStep(t) ==
    \/ Stop_status(t)
    \/ Stop_saveall(t)
    \/ Stop_stop(t)
    \/ Stop_kill(t)
    \/ Stop_wait(t)
    \/ Stop_timeout_kill(t)
    \/ Stop_final(t)
    \/ Restart_stop(t)
    \/ Restart_start(t)
    \/ AutoRestart_begin(t)

LifecycleStep(t) ==
    \/ Start_setup(t)
    \/ StopRestartStep(t)

ModpackStep(t) ==
    \/ installModpack_begin(t)
    \/ installModpack_download(t)
    \/ installModpack_install(t)
    \/ Start_jar(t)
    \/ StopRestartStep(t)

MonitorStep(m) ==
    \/ monitorProcess_begin(m)
    \/ monitorProcess_exit(m)
    \/ monitorProcess_stopped(m)
    \/ monitorProcess_crashed(m)
    \/ monitorProcess_delayed(m)

ReaderStep(c, s) ==
    \/ readOutput_scan(c, s)
    \/ parseOutput_ready(c, s)

\* What runs beside the lifecycle calls.
BackgroundStep ==
    \/ \E m \in Children : MonitorStep(m)
    \/ \E c \in Children, s \in Streams : ReaderStep(c, s)
    \/ \E c \in Children, code \in {"ok", "err"} : ChildExit(c, code)

OperatorStep ==
    \/ OpStart
    \/ OpStop
    \/ OpRestart

Next ==
    \/ OperatorStep
    \/ \E t \in Threads : LifecycleStep(t)
    \/ BackgroundStep

Spec == Init /\ [][Next]_vars

NextModpack ==
    \/ OperatorStep
    \/ \E t \in Threads : ModpackStep(t)
    \/ BackgroundStep

SpecModpack == InitModpack /\ [][NextModpack]_vars

\* A server with one child to spawn, a command line and the TPS timer.
InitCommand ==
    /\ InitCommon
    /\ modpack = FALSE
    /\ spawnCap = 1
    /\ lineKinds = {"ready"}
    /\ ticksLeft = MaxTicks

TPSStep(c) ==
    \/ requestTPSLoop_wake(c)
    \/ requestTPSLoop_tick(c)
    \/ requestTPSLoop_send(c)

NextCommand ==
    \/ Next
    \/ \E command \in Commands : OpSend(command)
    \/ \E c \in Children : TPSStep(c)

SpecCommand == InitCommand /\ [][NextCommand]_vars

\* The lines of a child that printed its ready line and then n - 1 others.
Printed(n) ==
    [i \in 1..n |-> <<IF i = 1 THEN "ready" ELSE "other", i>>]

\* A running server: Start has spawned child 1 and returned, the exit
\* monitor waits, the ready line has been classified.
InitRunningWith(io, cap) ==
    /\ ioValues = io
    /\ InitSampler
    /\ InitNoManager
    /\ status = "Running"
    /\ cmd = 1
    /\ stdin = 1
    /\ child = [c \in Children |-> IF c = 1 THEN "alive" ELSE "none"]
    /\ consoleLines = <<>>
    /\ tps = [c \in Children |-> "wait"]
    /\ statsMutex = "free"
    /\ ap = [a \in Appenders |-> [pc |-> "idle", ev |-> <<>>]]
    /\ players = <<>>
    /\ playerCount = 0
    /\ maxPlayers = DefaultMaxPlayers
    /\ statsTPS = DefaultTPS
    /\ serverStats = NoStats
    /\ ctxDone = FALSE
    /\ awake = {}
    /\ exited = {}
    /\ quit = FALSE
    /\ restarts = 0
    /\ thr = [t \in Threads |->
                [pc |-> IF t = Operator THEN "idle" ELSE "off",
                 inR |-> FALSE,
                 res |-> IF t = Operator THEN <<"Start", "ok">> ELSE <<>>,
                 wt |-> 0, victim |-> 0, tr |-> <<>>]]
    /\ mon = [m \in Children |->
                IF m = 1 THEN [pc |-> "wait", tgt |-> 1, path |-> "none"]
                ELSE [pc |-> "off", tgt |-> 0, path |-> "none"]]
    /\ rd = [c \in Children |-> [s \in Streams |-> NoLine]]
    /\ autoRestart = FALSE
    /\ modpack = FALSE
    /\ spawnCap = cap
    /\ ticksLeft = MaxTicks
    /\ raced = {}
    /\ stopFor = {}
    /\ manualIn = {}
    /\ stopIn = {}

\* The same with one child to spawn, where reading a process's I/O counters
\* fails.
InitRunning == InitRunningWith({}, 1)

\* A running server whose child has printed all but two of the lines the
\* output channel can hold, with no consumer so far; the child goes on to
\* print MaxBurst lines more.
InitOutput ==
    /\ InitRunning
    /\ bk = NoBackup
    /\ stdinLog = [c \in Children |-> <<>>]
    /\ sendRes = <<0, "", "">>
    /\ events = <<(<<"Info", "Server starting...">>),
                  (<<"Info", "Server started successfully!">>)>>
    /\ evHistory = events
    /\ eventChan = events
    /\ outputChan = Printed(OutputChanCap - 2)
    /\ sent = outputChan
    /\ linesLeft = MaxBurst
    /\ opsLeft = 0
    /\ lineKinds = LineKinds

OutputStep(c, s) ==
    \/ readOutput_scan(c, s)
    \/ parseOutput_ready(c, s)
    \/ parseOutput_other(c, s)

NextOutput ==
    \/ \E c \in Children, s \in Streams : OutputStep(c, s)
    \/ TUI_tick

SpecOutput == InitOutput /\ [][NextOutput]_vars

\* The event log after Start, and then by turns the ready lines the child
\* printed and the commands the operator sent.
LoggedSoFar(n) ==
    [i \in 1..n |-> IF i = 1 THEN <<"Info", "Server starting...">>
                    ELSE IF i % 2 = 0 THEN EventOf("stdout")
                    ELSE EventOf("tui")]

\* A running server whose event log and event channel hold all but two of
\* the events they can hold, with no consumer of the channel so far.
InitEvents ==
    /\ InitRunning
    /\ bk = NoBackup
    /\ events = LoggedSoFar(EventLogCap - 2)
    /\ evHistory = events
    /\ eventChan = LoggedSoFar(EventChanCap - 2)
    /\ outputChan = [i \in 1..((EventLogCap - 2) \div 2) |-> <<"ready", i>>]
    /\ sent = outputChan
    /\ stdinLog = [c \in Children |->
                     IF c = 1
                     THEN [i \in 1..((EventLogCap - 3) \div 2) |-> "say hi"]
                     ELSE <<>>]
    /\ sendRes = <<(EventLogCap - 3) \div 2, "say hi", "ok">>
    /\ linesLeft = MaxBurst
    /\ opsLeft = MaxOps
    /\ lineKinds = {"ready"}

addEventStep(a) ==
    \/ addEvent_call(a)
    \/ addEvent_lock(a)
    \/ addEvent_append(a)
    \/ addEvent_unlock(a)
    \/ addEvent_send(a)

NextEvents ==
    \/ \E a \in Appenders : addEventStep(a)
    \/ EventChan_receive

SpecEvents == InitEvents /\ [][NextEvents]_vars

\* A running server whose child goes on to print lines of every kind, while
\* the statistics are sampled.
InitPlayers ==
    /\ InitRunning
    /\ bk = NoBackup
    /\ stdinLog = [c \in Children |-> <<>>]
    /\ sendRes = <<0, "", "">>
    /\ events = <<(<<"Info", "Server starting...">>),
                  (<<"Info", "Server started successfully!">>)>>
    /\ evHistory = events
    /\ eventChan = events
    /\ outputChan = <<>>
    /\ sent = <<>>
    /\ linesLeft = MaxLines + 2
    /\ opsLeft = 0
    /\ lineKinds = AllKinds

parseOutput(c, s) ==
    \/ parseOutput_ready(c, s)
    \/ parseOutput_classify(c, s)
    \/ parseOutput_other(c, s)

NextPlayers ==
    \/ \E c \in Children, s \in Streams :
          \/ readOutput_scan(c, s)
          \/ parseOutput(c, s)
    \/ \E c \in Children : updateResourceStats(c)

SpecPlayers == InitPlayers /\ [][NextPlayers]_vars

\* The lines that change the registry or the event log, and one that
\* changes neither.
RegistryKinds == {"joinA", "joinB", "leaveA", "ipA", "uuidA", "ready", "other"}

\* A running server with one event less in its log than the log can hold,
\* whose TUI has not fetched the statistics yet.
InitSnapshot ==
    /\ InitRunning
    /\ bk = NoBackup
    /\ events = LoggedSoFar(EventLogCap - 1)
    /\ evHistory = events
    /\ eventChan = LoggedSoFar(EventChanCap - 1)
    /\ outputChan = [i \in 1..((EventLogCap - 1) \div 2) |-> <<"ready", i>>]
    /\ sent = outputChan
    /\ stdinLog = [c \in Children |->
                     IF c = 1
                     THEN [i \in 1..((EventLogCap - 2) \div 2) |-> "say hi"]
                     ELSE <<>>]
    /\ sendRes = <<(EventLogCap - 2) \div 2, "say hi", "ok">>
    /\ linesLeft = MaxLines + 2
    /\ opsLeft = MaxOps
    /\ lineKinds = RegistryKinds

NextSnapshot ==
    \/ \E c \in Children, s \in Streams :
          \/ readOutput_scan(c, s)
          \/ parseOutput(c, s)
    \/ TUI_tick
    \/ Snapshot_write

SpecSnapshot == InitSnapshot /\ [][NextSnapshot]_vars

\* A running server with backups enabled and its three timer loops started;
\* its readers may go on to log nLines events, and its operator to make
\* nOps calls.
InitLoopsWith(nLines, nOps) ==
    /\ InitRunning
    /\ bk = [c \in Children |-> IF c = 1 THEN "wait" ELSE "off"]
    /\ stdinLog = [c \in Children |-> <<>>]
    /\ sendRes = <<0, "", "">>
    /\ events = <<(<<"Info", "Server starting...">>),
                  (<<"Info", "Server started successfully!">>)>>
    /\ evHistory = events
    /\ eventChan = events
    /\ outputChan = <<(<<"ready", 1>>)>>
    /\ sent = outputChan
    /\ linesLeft = nLines
    /\ opsLeft = nOps
    /\ lineKinds = {"ready"}

\* The readers log events beside the timer loops.
InitLoops == InitLoopsWith(MaxLines, 0)

\* The operator is about to leave.
InitTeardown == InitLoopsWith(0, MaxOps - 1)

\* Nothing but the timer loops runs.
InitCancel == InitLoopsWith(0, 0)

\* Stop, from its status check to its return.
StopSteps(t) ==
    \/ Stop_status(t)
    \/ Stop_saveall(t)
    \/ Stop_stop(t)
    \/ Stop_kill(t)
    \/ Stop_wait(t)
    \/ Stop_timeout_kill(t)
    \/ Stop_final(t)

\* The ticks of the three timer loops and what follows them.
TimerStep(c) ==
    \/ updateResourceStats(c)
    \/ TPSStep(c)
    \/ backupScheduler_tick(c)
    \/ performBackup_begin(c)
    \/ performBackup_save_off(c)
    \/ performBackup_save_all(c)
    \/ performBackup_create(c)
    \/ performBackup_save_on(c)

\* The timer loops beside goroutines that log events.
NextLoops ==
    \/ \E c \in Children : TimerStep(c)
    \/ \E a \in Appenders : addEventStep(a)

SpecLoops == InitLoops /\ [][NextLoops]_vars

\* The timer loops while the operator leaves and Run stops the server.
NextTeardown ==
    \/ \E c \in Children : TimerStep(c)
    \/ Run_quit
    \/ Run_stop
    \/ StopSteps(Operator)
    \/ \E c \in Children, code \in {"ok", "err"} : ChildExit(c, code)
    \/ \E m \in Children :
          \/ monitorProcess_exit(m)
          \/ monitorProcess_stopped(m)
          \/ monitorProcess_crashed(m)

SpecTeardown == InitTeardown /\ [][NextTeardown]_vars

\* The returns of the timer loops.
ExitStep(c) ==
    \/ updateStatsLoop_exit(c)
    \/ requestTPSLoop_exit(c)
    \/ backupScheduler_exit(c)

\* The timer loops of a running server, and a cancellation of the context.
NextCancel ==
    \/ \E c \in Children : TimerStep(c)
    \/ \E c \in Children : ExitStep(c)
    \/ cancelFunc

SpecCancel == InitCancel /\ [][NextCancel]_vars

\* A running server whose process reports its I/O counters, with an operator
\* who makes one lifecycle call; the children print nothing more.
InitResample ==
    /\ InitRunningWith(0..MaxBytes, MaxChildren)
    /\ bk = NoBackup
    /\ stdinLog = [c \in Children |-> <<>>]
    /\ sendRes = <<0, "", "">>
    /\ events = <<(<<"Info", "Server starting...">>),
                  (<<"Info", "Server started successfully!">>)>>
    /\ evHistory = events
    /\ eventChan = events
    /\ outputChan = <<(<<"ready", 1>>)>>
    /\ sent = outputChan
    /\ linesLeft = 0
    /\ opsLeft = MaxOps - 1
    /\ lineKinds = {"ready"}

\* The sampling loops beside the operator's lifecycle calls.
NextResample ==
    \/ \E c \in Children : updateResourceStats(c)
    \/ OperatorStep
    \/ Start_setup(Operator)
    \/ StopSteps(Operator)
    \/ Restart_stop(Operator)
    \/ Restart_start(Operator)
    \/ \E c \in Children, code \in {"ok", "err"} : ChildExit(c, code)
    \/ \E m \in Children :
          \/ monitorProcess_begin(m)
          \/ monitorProcess_exit(m)
          \/ monitorProcess_stopped(m)
          \/ monitorProcess_crashed(m)

SpecResample == InitResample /\ [][NextResample]_vars

\* The same server where reading the I/O counters fails and the children
\* print one line more, the ready line of the child that a restart spawns.
InitWarmup ==
    /\ InitRunningWith({}, MaxChildren)
    /\ bk = NoBackup
    /\ stdinLog = [c \in Children |-> <<>>]
    /\ sendRes = <<0, "", "">>
    /\ events = <<(<<"Info", "Server starting...">>),
                  (<<"Info", "Server started successfully!">>)>>
    /\ evHistory = events
    /\ eventChan = events
    /\ outputChan = <<(<<"ready", 1>>)>>
    /\ sent = outputChan
    /\ linesLeft = MaxLines
    /\ opsLeft = MaxOps - 1
    /\ lineKinds = {"ready"}

\* The metrics-request loops and the readers beside the operator's lifecycle
\* calls.
NextWarmup ==
    \/ \E c \in Children : TPSStep(c)
    \/ \E c \in Children, s \in Streams : ReaderStep(c, s)
    \/ OperatorStep
    \/ Start_setup(Operator)
    \/ StopSteps(Operator)
    \/ Restart_stop(Operator)
    \/ Restart_start(Operator)
    \/ \E c \in Children, code \in {"ok", "err"} : ChildExit(c, code)
    \/ \E m \in Children :
          \/ monitorProcess_begin(m)
          \/ monitorProcess_exit(m)
          \/ monitorProcess_stopped(m)
          \/ monitorProcess_crashed(m)

SpecWarmup == InitWarmup /\ [][NextWarmup]_vars

\* What performBackup does once the scheduler has called it.
performBackup(c) ==
    \/ performBackup_begin(c)
    \/ performBackup_save_off(c)
    \/ performBackup_save_all(c)
    \/ performBackup_create(c)
    \/ performBackup_save_on(c)

\* The backup scheduler beside an operator who leaves and a child that may
\* exit.
NextSchedule ==
    \/ \E c \in Children : backupScheduler_tick(c)
    \/ \E c \in Children : performBackup(c)
    \/ Run_quit
    \/ Run_stop
    \/ StopSteps(Operator)
    \/ \E c \in Children, code \in {"ok", "err"} : ChildExit(c, code)
    \/ \E m \in Children :
          \/ monitorProcess_exit(m)
          \/ monitorProcess_stopped(m)
          \/ monitorProcess_crashed(m)

\* The scheduler's goroutine is runnable throughout performBackup, between
\* its sleeps, and the Go scheduler runs every runnable goroutine.
SpecSchedule ==
    /\ InitTeardown
    /\ [][NextSchedule]_vars
    /\ \A c \in Children : WF_vars(performBackup(c))

-----------------------------------------------------------------------------
\* The backup manager

\* A directory, and a file with its content.
Dir == [dir |-> TRUE, data |-> 0]
File(n) == [dir |-> FALSE, data |-> n]

\* The paths below the server directory: the directories and the files.
DirPaths ==
    {<<"world">>, <<"world", "region">>, <<"world", "data">>,
     <<"world_nether">>, <<"lobby">>, <<"worlds">>, <<"DIM1">>}

FilePaths ==
    {<<"world", "level.dat">>, <<"world", "session.lock">>,
     <<"world", "region", "r.0.0.mca">>,
     <<"world_nether", "session.lock">>,
     <<"world_nether", "old_session.lock">>,
     <<"lobby", "level.dat">>, <<"world_notes">>}

\* The directories above path p.
Parents(p) ==
    {SubSeq(p, 1, k) : k \in 1..(Len(p) - 1)}

\* The directory tree that holds the paths of S, every file in its first
\* version.
Tree(S) ==
    [p \in S |-> IF p \in DirPaths THEN Dir ELSE File(1)]

\* The sets of paths that are trees: with a path, the directories above it.
Shapes(paths) ==
    {S \in SUBSET paths : \A p \in S : Parents(p) \subseteq S}

\* Path p is root or lies below it.
IsUnder(p, root) ==
    Len(p) >= Len(root) /\ SubSeq(p, 1, Len(root)) = root

\* strings.HasPrefix and strings.HasSuffix on the names of the model.
HasPrefix(name, pre) ==
    CASE pre = "world_" -> name \in {"world_nether", "world_notes"}
      [] pre = "DIM" -> name = "DIM1"
      [] pre = "backup_" -> name = "backup_"
      [] OTHER -> FALSE

HasSuffix(name, suf) ==
    CASE suf = "session.lock" ->
            name \in {"session.lock", "old_session.lock"}
      [] suf = ".zip" -> name = ".zip"
      [] OTHER -> FALSE

\* The names findWorldDirs takes for a world's.
IsWorldName(name) ==
    \/ name = "world"
    \/ name = "world_nether"
    \/ name = "world_the_end"
    \/ HasPrefix(name, "world_")
    \/ HasPrefix(name, "DIM")

\* A findWorldDirs that takes every directory for a world.
findWorldDirs_AnyDir(tree) ==
    {p \in DOMAIN tree : Len(p) = 1 /\ tree[p].dir}

\* findWorldDirs: the directories right below the server directory that
\* have a world's name or hold a level.dat.
findWorldDirs(tree) ==
    {p \in DOMAIN tree :
        /\ Len(p) = 1
        /\ tree[p].dir
        /\ \/ IsWorldName(p[1])
           \/ <<p[1], "level.dat">> \in DOMAIN tree}

\* addDirToZip: the entries written for the tree below root.  The root has
\* no entry of its own; a directory below it has one; a file has one unless
\* its path ends in session.lock.
addDirToZip(tree, root) ==
    {p \in DOMAIN tree :
        /\ IsUnder(p, root)
        /\ p # root
        /\ tree[p].dir \/ ~HasSuffix(p[Len(p)], "session.lock")}

\* The entries of the archive CreateBackup writes, by their names in it.
Entries(tree) ==
    LET ps == UNION {addDirToZip(tree, r) : r \in findWorldDirs(tree)}
    IN  [p \in ps |-> tree[p]]

\* The trees the archive is made from.
Source(tree) ==
    LET ps == {p \in DOMAIN tree :
                  \E r \in findWorldDirs(tree) : IsUnder(p, r)}
    IN  [p \in ps |-> tree[p]]

\* The names in the backup directory: backup_<timestamp>.zip, and a file
\* that is no archive.
ArchiveName(ts) == <<"backup_", ts, ".zip">>
Stray == <<"notes", 0, ".txt">>

\* An archive from before this run.
OldArchive ==
    [mtime |-> 0, entries |-> <<>>, from |-> <<>>, complete |-> TRUE]

\* ListBackups: one record per file whose name begins with backup_ and ends
\* in .zip, with the file's modification time; none if the directory is not
\* there.
ListBackups(exists, dir) ==
    IF ~exists THEN {}
    ELSE {[Name |-> n, CreatedAt |-> dir[n].mtime] :
             n \in {m \in DOMAIN dir :
                       HasPrefix(m[1], "backup_") /\ HasSuffix(m[3], ".zip")}}

\* The k records of list with the latest times.
Newest(list, k) ==
    {a \in list : Cardinality({b \in list : b.CreatedAt > a.CreatedAt}) < k}

\* The k records of list with the earliest times.
Oldest(list, k) ==
    {a \in list : Cardinality({b \in list : b.CreatedAt < a.CreatedAt}) < k}

\* Directory dir without the files of names.
Without(dir, names) ==
    [n \in DOMAIN dir \ names |-> dir[n]]

\* A cleanup that keeps the oldest archives.
cleanupOldBackups_KeepsOldest(dir) ==
    LET list == ListBackups(TRUE, dir)
        excess == {a.Name : a \in list \ Oldest(list, maxBackups)}
    IN  IF Cardinality(list) <= maxBackups THEN {dir}
        ELSE {Without(dir, gone) : gone \in SUBSET excess}

\* cleanupOldBackups: the directories it may leave.  With no more archives
\* than maxBackups nothing is removed; else the archives after the
\* maxBackups newest are removed one by one, and a removal that fails is
\* only warned about.
cleanupOldBackups(dir) ==
    LET list == ListBackups(TRUE, dir)
        excess == {a.Name : a \in list \ Newest(list, maxBackups)}
    IN  IF Cardinality(list) <= maxBackups THEN {dir}
        ELSE {Without(dir, gone) : gone \in SUBSET excess}

\* The supervisor, which the manager's calls leave alone.
supVars ==
    <<status, procVars, logVars, readVars, sideVars, restarts, thr, mon,
      opsLeft, stopFor, manualIn, stopIn, confVars, netVars>>

\* A call of the manager returns.
Returns(op, name, err, warned) ==
    calls' = Append(calls, [op |-> op, name |-> name, err |-> err,
                            warned |-> warned])

\* CreateBackup.  os.MkdirAll, findWorldDirs' ReadDir, os.Create and the
\* writing of the archive may each fail; a failure while writing leaves the
\* file that os.Create made.  A second archive of the same second replaces
\* the first.  After the archive is written cleanupOldBackups runs, and its
\* failures are printed as warnings: CreateBackup returns nil.
CreateBackup ==
    /\ Len(calls) < MaxCalls
    /\ LET name == ArchiveName(now)
           file == [mtime |-> Len(calls) + 1, entries |-> Entries(serverDir),
                    from |-> Source(serverDir), complete |-> TRUE]
           partial == [mtime |-> Len(calls) + 1, entries |-> <<>>,
                       from |-> Source(serverDir), complete |-> FALSE]
           put(f) == [n \in DOMAIN backupDir \cup {name} |->
                         IF n = name THEN f ELSE backupDir[n]]
       IN  \/ /\ Returns("CreateBackup", name, "mkdir", FALSE)
              /\ UNCHANGED <<backupDirExists, backupDir>>
           \/ /\ backupDirExists' = TRUE
              /\ \/ /\ Returns("CreateBackup", name, "readdir", FALSE)
                    /\ UNCHANGED backupDir
                 \/ /\ findWorldDirs(serverDir) = {}
                    /\ Returns("CreateBackup", name, "no world", FALSE)
                    /\ UNCHANGED backupDir
                 \/ /\ findWorldDirs(serverDir) # {}
                    /\ \/ /\ Returns("CreateBackup", name, "create", FALSE)
                          /\ UNCHANGED backupDir
                       \/ /\ Returns("CreateBackup", name, "add", FALSE)
                          /\ backupDir' = put(partial)
                       \/ \E left \in cleanupOldBackups(put(file)) :
                             /\ backupDir' = left
                             /\ Returns("CreateBackup", name, "none",
                                        Cardinality(ListBackups(TRUE, left))
                                            > maxBackups)
    /\ UNCHANGED <<serverDir, now, maxBackups, supVars>>

\* The tree after the entries are extracted into it: a directory entry is
\* made with os.MkdirAll, a file entry is written with os.Create below its
\* directories, which are made if they are missing.
Extract(tree, entries) ==
    LET made == UNION {Parents(p) : p \in DOMAIN entries}
    IN  [p \in DOMAIN tree \cup DOMAIN entries \cup made |->
            IF p \in DOMAIN entries THEN entries[p]
            ELSE IF p \in DOMAIN tree THEN tree[p]
            ELSE Dir]

\* RestoreBackup(path of archive n): the archive cannot be opened, or each
\* of its entries is extracted.
RestoreBackup(n) ==
    /\ Len(calls) < MaxCalls
    /\ n \in DOMAIN backupDir
    /\ \/ /\ Returns("RestoreBackup", n, "open", FALSE)
          /\ UNCHANGED serverDir
       \/ /\ Returns("RestoreBackup", n, "none", FALSE)
          /\ serverDir' = Extract(serverDir, backupDir[n].entries)
    /\ UNCHANGED <<backupDirExists, backupDir, now, maxBackups, supVars>>

\* A second passes.
Tick ==
    /\ now < MaxTime
    /\ now' = now + 1
    /\ UNCHANGED <<serverDir, backupDirExists, backupDir, maxBackups, calls,
                   supVars>>

\* Within the next second the server process rewrites one of its files.
ServerWrites(p) ==
    /\ now < MaxTime
    /\ now' = now + 1
    /\ p \in DOMAIN serverDir
    /\ serverDir[p] = File(1)
    /\ serverDir' = [serverDir EXCEPT ![p] = File(2)]
    /\ UNCHANGED <<backupDirExists, backupDir, maxBackups, calls, supVars>>

\* Within the next second a directory right below the server directory is
\* deleted with all it holds.
Deletes(root) ==
    /\ now < MaxTime
    /\ now' = now + 1
    /\ root \in DOMAIN serverDir
    /\ Len(root) = 1
    /\ serverDir[root].dir
    /\ serverDir' = [p \in {q \in DOMAIN serverDir : ~IsUnder(q, root)} |->
                        serverDir[p]]
    /\ UNCHANGED <<backupDirExists, backupDir, maxBackups, calls, supVars>>

\* A supervisor that does nothing beside the manager.
InitIdle ==
    /\ InitServer
    /\ autoRestart = FALSE
    /\ modpack = FALSE
    /\ spawnCap = 0
    /\ lineKinds = {}
    /\ ticksLeft = 0

\* A manager with any retention up to MaxKeep, a server directory with any
\* of the directories and files right below it, and a backup directory that
\* is missing, or holds an older archive and a file that is none.
InitRetention ==
    /\ InitIdle
    /\ serverDir \in
          {Tree(S) : S \in Shapes({<<"lobby">>, <<"lobby", "level.dat">>,
                                   <<"worlds">>, <<"world_notes">>,
                                   <<"DIM1">>})}
    /\ maxBackups \in 0..MaxKeep
    /\ backupDirExists \in BOOLEAN
    /\ backupDir =
          IF backupDirExists
          THEN [n \in {ArchiveName(0), Stray} |-> OldArchive]
          ELSE <<>>
    /\ now = 1
    /\ calls = <<>>

NextRetention ==
    \/ CreateBackup
    \/ Tick

SpecRetention == InitRetention /\ [][NextRetention]_vars

\* A manager with no backup directory yet and a server directory with any
\* trees below world and world_nether.
InitRestore ==
    /\ InitIdle
    /\ serverDir \in
          {Tree(S) : S \in Shapes({p \in DirPaths \cup FilePaths :
                                      \/ IsUnder(p, <<"world">>)
                                      \/ IsUnder(p, <<"world_nether">>)})}
    /\ maxBackups = MaxKeep
    /\ backupDirExists = FALSE
    /\ backupDir = <<>>
    /\ now = 1
    /\ calls = <<>>

NextRestore ==
    \/ CreateBackup
    \/ \E ts \in 1..MaxTime : RestoreBackup(ArchiveName(ts))
    \/ \E p \in FilePaths : ServerWrites(p)
    \/ \E r \in DirPaths : Deletes(r)

SpecRestore == InitRestore /\ [][NextRestore]_vars

----------------------------------------------------------------------------
\* Properties of the lifecycle

\* The transitions of the status state machine.
Edges ==
    {<<"Stopped", "Starting">>, <<"Starting", "Downloading">>,
     <<"Downloading", "Installing">>, <<"Installing", "Starting">>,
     <<"Starting", "Running">>, <<"Running", "Stopping">>,
     <<"Starting", "Stopping">>, <<"Stopping", "Stopped">>,
     <<"Running", "Crashed">>, <<"Starting", "Crashed">>,
     <<"Crashed", "Restarting">>, <<"Running", "Restarting">>,
     <<"Starting", "Restarting">>, <<"Restarting", "Starting">>}

\* C1: every change of the status follows an edge of the state machine.
C1_StatusFollowsEdges ==
    [][status' # status => <<status, status'>> \in Edges]_vars

\* C2: at most one child process is alive at any time.
C2_AtMostOneChildAlive ==
    Cardinality({c \in Children : child[c] = "alive"}) <= 1

\* Thread t spawns a child in this step.
Spawns(t) ==
    /\ thr[t].pc \in {"start_setup", "start_jar"}
    /\ thr'[t].pc # thr[t].pc
    /\ cmd' # cmd
    /\ child'[cmd'] = "alive"

\* C3: when a Restart that was called while the status was Running or
\* Starting, with a child alive, spawns its new child, the old child has
\* ended.
C3_RestartStopsBeforeStart ==
    [][\A t \in Threads :
          Spawns(t) /\ thr[t].victim # 0 => child[thr[t].victim] # "alive"]_vars

\* C4: the status becomes Running only from Starting.
C4_RunningOnlyFromStarting ==
    [][status' = "Running" => status \in {"Starting", "Running"}]_vars

\* The orders in which a Stop that goes on does its steps: the status, the
\* save-all command, the terminate command (the 2 s sleep lies between the
\* two), a kill when the command could not be sent, the end of the wait by
\* the child's exit or by the timeout with its kill, the last status.
StopTraces ==
    {<<"Stopping", "save-all", "stop", "exited", "Stopped">>,
     <<"Stopping", "save-all", "stop", "timeout", "kill", "Stopped">>,
     <<"Stopping", "save-all", "stop", "kill", "exited", "Stopped">>}

IsPrefix(a, b) ==
    Len(a) <= Len(b) /\ \A i \in 1..Len(a) : a[i] = b[i]

StopPcs ==
    {"stop_status", "stop_saveall", "stop_stop", "stop_kill", "stop_wait",
     "stop_timeout_kill", "stop_final"}

StopStep(t) ==
    \/ Stop_status(t)
    \/ Stop_saveall(t)
    \/ Stop_stop(t)
    \/ Stop_kill(t)
    \/ Stop_wait(t)
    \/ Stop_timeout_kill(t)
    \/ Stop_final(t)

\* C5: a Stop that goes on does its steps in one of these orders, is never
\* blocked before its return, and sets the status to Stopped as it returns.
C5_StopSequence ==
    /\ [](\A t \in Threads :
             /\ \E full \in StopTraces : IsPrefix(thr[t].tr, full)
             /\ thr[t].pc \in StopPcs => ENABLED StopStep(t))
    /\ [][\A t \in Threads :
             thr[t].pc = "stop_final" /\ thr'[t].pc # "stop_final"
             => /\ status' = "Stopped"
                /\ thr'[t].tr \in StopTraces]_vars

\* C5, witnessed: the operator's Stop has returned by the timeout and kill.
C5_Witness ==
    /\ thr[Operator].pc = "idle"
    /\ thr[Operator].res = <<"Stop", "ok">>
    /\ thr[Operator].tr
         = <<"Stopping", "save-all", "stop", "timeout", "kill", "Stopped">>
    /\ status = "Stopped"

\* Monitor m's Wait returns in this step.
MonitorWakes(m) ==
    mon[m].pc = "wait" /\ mon'[m].pc # "wait"

\* C6: the exit of a child that a Stop was called for is never taken for a
\* crash, whether the monitor reads the status before Stop's last update
\* (Stopping) or after it (Stopped).
C6_ExitAfterStopIsExpected ==
    [][\A m \in Children :
          /\ MonitorWakes(m)
          /\ mon[m].tgt \in stopFor
          /\ status \in {"Stopping", "Stopped"}
          => mon'[m].pc # "set_crashed"]_vars

DelayEnds(m) ==
    mon[m].pc = "delay" /\ mon'[m].pc = "done"

\* C8: a crash with auto-restart and no manual call in between leads to one
\* Restart call when the delay ends.
C8_CrashRestartsOnce ==
    [][\A m \in Children :
          DelayEnds(m) /\ m \notin manualIn
          => thr[m].pc = "off" /\ thr'[m].pc = "restart_begin"]_vars

\* C9: after a manual Stop in the delay window no auto-restart happens.
C9_StopCancelsAutoRestart ==
    [][\A m \in Children :
          DelayEnds(m) /\ m \in stopIn => thr'[m].pc # "restart_begin"]_vars

\* Thread t calls Stop in this step: the operator, or a Restart.
StopCalled(t) ==
    \/ /\ t = Operator
       /\ thr[t].pc = "idle"
       /\ opsLeft' # opsLeft
       /\ thr'[t].pc \in {"idle", "stop_status"}
    \/ /\ thr[t].pc = "restart_stop"
       /\ thr'[t].pc # "restart_stop"

\* What a Stop that is a no-op leaves as it is, and its return.
StopIsNoop(t) ==
    /\ IF thr[t].inR
       THEN thr'[t].pc = "restart_start"
       ELSE thr'[t].pc = "idle" /\ thr'[t].res = <<"Stop", "ok">>
    /\ UNCHANGED <<status, cmd, stdin, child, stdinLog, events, eventChan,
                   outputChan, restarts, mon>>

\* C10 as stated: Stop called when the status is Stopped, or when no child
\* process is running, changes nothing.
C10_NoopWhenNothingRuns ==
    [][\A t \in Threads :
          /\ StopCalled(t)
          /\ status = "Stopped" \/ \A c \in Children : child[c] # "alive"
          => StopIsNoop(t)]_vars

\* C10, amended: Stop called when the status is neither Running nor Starting
\* (Stopped among them) returns success and changes nothing.
C10_NoopUnlessRunningOrStarting ==
    [][\A t \in Threads :
          StopCalled(t) /\ status \notin {"Running", "Starting"}
          => StopIsNoop(t)]_vars

\* C10, witnessed: the child has ended with code 0, the status is Stopped and
\* the operator's Stop, which never went on, has returned.
C10_Witness ==
    /\ thr[Operator].pc = "idle"
    /\ thr[Operator].res = <<"Stop", "ok">>
    /\ thr[Operator].tr = <<>>
    /\ status = "Stopped"
    /\ child[1] = "ok"
    /\ mon[1].pc = "done"

----------------------------------------------------------------------------
\* Properties of Start's failures

StartPcs ==
    {"start_setup", "mp_download", "mp_install", "start_jar"}

\* Thread t's Start returns in this step.
StartReturns(t) ==
    thr[t].pc \in StartPcs /\ thr'[t].pc \notin StartPcs

ModpackFails(t) ==
    /\ thr[t].pc \in {"mp_download", "mp_install"}
    /\ StartReturns(t)
    /\ thr'[t].res[2] = "err"

\* C12: when Start gives up because the download or the installation of the
\* modpack failed, an Error event is appended, the error is returned and the
\* status is no longer Starting, Downloading or Installing.
C12_ModpackFailureRevertsStatus ==
    [][\A t \in Threads :
          ModpackFails(t)
          => /\ Len(events') = Len(events) + 1
             /\ events'[Len(events')][1] = "Error"
             /\ status' \notin {"Starting", "Downloading", "Installing"}]_vars

\* C13: with a modpack configured the status is Starting again when Start
\* spawns the child.
C13_StartingAgainAtSpawn ==
    [][\A t \in Threads : modpack /\ Spawns(t) => status = "Starting"]_vars

----------------------------------------------------------------------------
\* Properties of SendCommand

\* The TUI calls SendCommand in this step.
SendCalled ==
    sendRes'[1] = sendRes[1] + 1

\* C14: SendCommand called while the attached handle has no live process
\* fails as "not running", writes nothing and appends no event.
C14_NotRunningWithoutChild ==
    [][SendCalled /\ ~Alive(cmd)
       => /\ sendRes'[3] = "not_running"
          /\ UNCHANGED <<stdinLog, events, eventChan>>]_vars

\* The commands written to the children in this step.
Written ==
    {x \in Commands \cup {"save-all", "stop"} :
        \E c \in Children : stdinLog'[c] = Append(stdinLog[c], x)}

\* The events logged in this step.
Logged ==
    SubSeq(evHistory', Len(evHistory) + 1, Len(evHistory'))

----------------------------------------------------------------------------
\* Properties of the restart counter

\* Thread t calls Restart in this step: the operator, or the goroutine the
\* exit monitor started for it.
RestartCalled(t) ==
    /\ thr[t].pc \in {"idle", "restart_begin"}
    /\ thr'[t].pc = "restart_stop"

\* C16: a step in which Restart is called adds one to the restart counter,
\* and no other step changes it.
C16_CounterCountsRestarts ==
    [][IF \E t \in Threads : RestartCalled(t)
       THEN restarts' = restarts + 1
       ELSE restarts' = restarts]_vars

\* C16, witnessed: the operator's Restart and an auto-restart have both been
\* called, and the counter is 2.
C16_Witness ==
    /\ restarts = 2
    /\ opsLeft = 0
    /\ \E m \in Children : mon[m].path = "crash" /\ thr[m].pc \notin {"off", "restart_begin"}

----------------------------------------------------------------------------
\* Properties of the output pipeline

\* The reader of child c's stream s takes a line in this step.
Scans(c, s) ==
    rd[c][s] = NoLine /\ rd'[c][s] # NoLine

\* C17: a reader is never held up by the output channel.  With a line to
\* read it can always take it, also when the channel is full; the line it
\* took is then not queued (the channel is left as it was, its lines in
\* their order), it is still held for classification, and the reader can
\* always classify the line it holds and so come back for the next.
C17_ReaderNeverBlocks ==
    /\ [](\A c \in Children, s \in Streams :
             /\ child[c] = "alive" /\ linesLeft > 0 /\ rd[c][s] = NoLine
                => ENABLED readOutput_scan(c, s)
             /\ rd[c][s] # NoLine
                => ENABLED (parseOutput_ready(c, s) \/ parseOutput_other(c, s)))
    /\ [][\A c \in Children, s \in Streams :
             Scans(c, s)
             => /\ sent' = Append(sent, rd'[c][s])
                /\ outputChan' = IF Len(outputChan) >= OutputChanCap
                                 THEN outputChan
                                 ELSE Append(outputChan, rd'[c][s])]_vars

\* C17, witnessed: two lines were read while the channel was full; they are
\* classified and not queued, and nothing was ever taken from the channel.
C17_Witness ==
    /\ Len(sent) = OutputChanCap + 2
    /\ ticksLeft = MaxTicks
    /\ Len(outputChan) = OutputChanCap
    /\ outputChan[OutputChanCap] = sent[OutputChanCap]
    /\ \A c \in Children, s \in Streams : rd[c][s] = NoLine

FirstN(q, n) == SubSeq(q, 1, n)

LastN(q, n) == SubSeq(q, Len(q) - n + 1, Len(q))

\* C18 as stated: when more lines were sent than the channel holds and none
\* was taken from it, the channel holds the most recent ones.
C18_ChannelKeepsNewest ==
    ticksLeft = MaxTicks /\ Len(sent) > OutputChanCap
    => outputChan = LastN(sent, OutputChanCap)

\* C18, amended: when more lines were sent than the channel holds and none
\* was taken from it, the channel holds the earliest ones, and what the
\* consumer has taken so far is the beginning of what was sent.
C18_ChannelKeepsOldest ==
    /\ ticksLeft = MaxTicks /\ Len(sent) > OutputChanCap
       => outputChan = FirstN(sent, OutputChanCap)
    /\ Len(consoleLines) < ConsoleCap
       => consoleLines = FirstN(sent, Len(consoleLines))

\* C18, witnessed: the consumer began to drain after two lines had been
\* dropped, and has the first two lines that were sent.
C18_Witness ==
    /\ Len(sent) = OutputChanCap + 2
    /\ consoleLines = <<sent[1], sent[2]>>
    /\ Len(outputChan) = OutputChanCap - 2
    /\ outputChan[Len(outputChan)] = sent[OutputChanCap]

----------------------------------------------------------------------------
\* The event log and the event stream

Min(a, b) == IF a < b THEN a ELSE b

\* C19: in every reachable state the event log holds at most 100 events, and
\* after any appends by any of the goroutines it holds exactly the most
\* recent min(n, 100) of the n events appended, in append order, whether or
\* not the event channel was ever received from.
C19_LogKeepsMostRecent ==
    /\ Len(events) <= EventLogCap
    /\ events = LastN(evHistory, Min(Len(evHistory), EventLogCap))

\* More events were appended than the log holds, by readers and the TUI
\* alike, the two oldest are gone, and the channel has been received from.
C19_Witness ==
    /\ Len(evHistory) = EventLogCap + 2
    /\ Len(events) = EventLogCap
    /\ events[1] = evHistory[3]
    /\ events[EventLogCap] = EventOf("tui")
    /\ events[EventLogCap - 1] = EventOf("stdout")
    /\ ticksLeft < MaxTicks

\* C20: appending an event never blocks on the event channel: the send step
\* can always be taken; when the channel already holds 100 events the send
\* leaves the channel and the log as they are, the event being in the log;
\* and the goroutine at the send does not hold the statistics lock.
C20_SendNeverBlocksNorHoldsLock ==
    /\ [](\A a \in Appenders :
            ap[a].pc = "send" =>
                /\ ENABLED addEvent_send(a)
                /\ statsMutex # a)
    /\ [][\A a \in Appenders :
            (addEvent_send(a) /\ Len(eventChan) = EventChanCap) =>
                /\ eventChan' = eventChan
                /\ events' = events
                /\ \E i \in 1..Len(events) : events[i] = ap[a].ev]_vars

\* The channel was never received from and is full, every addEvent has
\* returned, and the log has recorded events the channel dropped.
C20_Witness ==
    /\ ticksLeft = MaxTicks
    /\ Len(eventChan) = EventChanCap
    /\ Len(evHistory) > EventChanCap
    /\ \A a \in Appenders : ap[a].pc = "idle"
    /\ eventChan = FirstN(evHistory, EventChanCap)
    /\ events[Len(events)] = evHistory[Len(evHistory)]

----------------------------------------------------------------------------
\* The player registry

\* How many times an event was logged so far.
CountIn(h, e) == Cardinality({i \in 1..Len(h) : h[i] = e})

Count(type, msg) == CountIn(evHistory, <<type, msg>>)

\* A parseOutput step of reader (c, s) that takes the branch `cat'.
Classifies(c, s, cat) ==
    /\ parseOutput(c, s)
    /\ Category(rd[c][s][1]) = cat

\* C21: in every reachable state the player registry has at most one entry
\* per name, whatever join, leave, address and identifier lines the two
\* readers classify and however they interleave.
C21_OneEntryPerName ==
    \A i, j \in 1..Len(players) :
        players[i].name = players[j].name => i = j

\* Alice's join line was classified twice and Bob's once, and the registry
\* holds Alice once and Bob once.
C21_Witness ==
    /\ Count("PlayerJoin", "Alice joined the game") = 2
    /\ Count("PlayerJoin", "Bob joined the game") = 1
    /\ Len(players) = 2

\* C22: classifying a join line for a name already in the registry leaves
\* the registry as it is, entry by entry with its join time, identifier and
\* address, and still appends one PlayerJoin event to the log.
C22_RejoinKeepsRegistry ==
    [][\A c \in Children, s \in Streams :
          (/\ Classifies(c, s, "join")
           /\ Present(players, Line(rd[c][s][1]).join)) =>
              LET e == <<"PlayerJoin",
                         Line(rd[c][s][1]).join \o " joined the game">>
              IN  /\ players' = players
                  /\ evHistory' = Append(evHistory, e)
                  /\ CountIn(evHistory', e) = CountIn(evHistory, e) + 1
                  /\ events'[Len(events')] = e]_vars

\* Alice joined at one line, her address was recorded, and a later join
\* line of hers was classified: the entry has the first join time and the
\* address, and two join events are logged.
C22_Witness ==
    /\ Len(players) = 1
    /\ players[1].name = "Alice"
    /\ players[1].ip = "10.0.0.1"
    /\ players[1].joinedAt = 1
    /\ Len(sent) = 3
    /\ Count("PlayerJoin", "Alice joined the game") = 2
    /\ evHistory[Len(evHistory)] = <<"PlayerJoin", "Alice joined the game">>

\* No reader holds a line: every line scanned has been classified.
AllClassified ==
    \A c \in Children, s \in Streams : rd[c][s] = NoLine

\* C23: after a population report `There are X of a max of Y players
\* online' is classified the statistics hold PlayerCount = X and
\* MaxPlayers = Y, whatever the registry holds, and the registry's player
\* list is as it was.
C23_ReportSetsCounts ==
    [][\A c \in Children, s \in Streams :
          Classifies(c, s, "list") =>
              /\ playerCount' = Line(rd[c][s][1]).cur
              /\ maxPlayers' = Line(rd[c][s][1]).max
              /\ players' = players]_vars

\* Alice is the one player in the registry, and the last line classified
\* was a report of 3 of 20: the count says 3.
C23_Witness ==
    /\ Len(sent) = 2
    /\ sent[1][1] = "joinA"
    /\ sent[2][1] = "list"
    /\ AllClassified
    /\ Len(players) = 1
    /\ players[1].name = "Alice"
    /\ playerCount = 3
    /\ maxPlayers = 20

\* C24: the player count equals the length of the registry right after
\* every change of the registry by a join or a leave line, and right after
\* every resource-sampling tick, so that a count that disagrees with the
\* registry agrees again after the next tick.
C24_CountFollowsRegistry ==
    /\ [][\A c \in Children, s \in Streams :
            (\/ Classifies(c, s, "join") /\ players' # players
             \/ Classifies(c, s, "leave")) =>
                playerCount' = Len(players')]_vars
    /\ [][\A c \in Children :
            updateResourceStats(c) => playerCount' = Len(players')]_vars

\* The one line printed was a report of 3 players, the registry is empty,
\* and a tick has put the count back to 0.
C24_Witness ==
    /\ Len(sent) = 1
    /\ sent[1][1] = "list"
    /\ AllClassified
    /\ players = <<>>
    /\ ticksLeft < MaxTicks
    /\ playerCount = 0

\* C25: classifying a line `Mean TPS: N' sets the TPS metric to N and
\* changes nothing else: no event goes to the event log or the event
\* channel, and the status, the registry and the player counts are as they
\* were.
C25_TPSLineSetsOnlyTPS ==
    [][\A c \in Children, s \in Streams :
          Classifies(c, s, "tps") =>
              /\ statsTPS' = Line(rd[c][s][1]).val
              /\ UNCHANGED <<events, eventChan, evHistory, status, players,
                             playerCount, maxPlayers>>
              /\ UNCHANGED <<procVars, outputChan, sent, linesLeft,
                             envVars, ticksLeft, consoleLines, sendRes,
                             tps, statsMutex, ap, restarts, thr, mon,
                             opsLeft, stopFor, manualIn, stopIn>>]_vars

\* The one line printed was `[WARN] Mean TPS: 5.00': the metric is 5.00 and
\* no event was logged for it.
C25_Witness ==
    /\ Len(sent) = 1
    /\ sent[1][1] = "tpsWarn"
    /\ AllClassified
    /\ statsTPS = 500
    /\ Len(evHistory) = 2
    /\ Len(eventChan) = 2

\* The priority order of the categories.
Priority ==
    <<"ready", "join", "leave", "list", "tps", "chat", "ip", "uuid",
      "swallow", "warn", "error">>

\* The category of highest priority among those a line matches.
Highest(m) ==
    IF m = {} THEN "none"
    ELSE Priority[CHOOSE i \in 1..Len(Priority) :
                     /\ Priority[i] \in m
                     /\ \A j \in 1..(i - 1) : Priority[j] \notin m]

\* The type of the event a category emits.
EventTypeOf(cat) ==
    CASE cat = "ready" -> "Info"
      [] cat = "join" -> "PlayerJoin"
      [] cat = "leave" -> "PlayerLeave"
      [] cat = "chat" -> "Chat"
      [] cat = "warn" -> "Warning"
      [] cat = "error" -> "Error"
      [] OTHER -> "none"

\* C26: the classifier applies at most one category per line, the one of
\* highest priority in the order ready, join, leave, population report,
\* performance metric, chat, address, identifier, secondary-metric swallow,
\* warning, error among those the line matches: only that category's event
\* is emitted and only its part of the statistics changes, and a line
\* matching none changes no state and emits no event.
C26_HighestPriorityOnly ==
    [][\A c \in Children, s \in Streams :
          parseOutput(c, s) =>
              LET cat == Highest(Line(rd[c][s][1]).m)
                  type == EventTypeOf(cat)
              IN  /\ IF type = "none"
                     THEN UNCHANGED <<events, eventChan, evHistory>>
                     ELSE /\ Len(evHistory') = Len(evHistory) + 1
                          /\ evHistory'[Len(evHistory')][1] = type
                  /\ status' # status => cat = "ready"
                  /\ players' # players =>
                         cat \in {"join", "leave", "ip", "uuid"}
                  /\ playerCount' # playerCount =>
                         cat \in {"join", "leave", "list"}
                  /\ maxPlayers' # maxPlayers => cat = "list"
                  /\ statsTPS' # statsTPS => cat = "tps"
                  /\ cat = "join" =>
                         Present(players', Line(rd[c][s][1]).join)
                  /\ cat = "leave" =>
                         ~Present(players', Line(rd[c][s][1]).leave)]_vars

\* A line matching both join and chat was classified, then a line matching
\* nothing: Alice is in the registry, a PlayerJoin event is the last event
\* logged and no Chat event was.
C26_Witness ==
    /\ Len(sent) = 2
    /\ sent[1][1] = "joinChat"
    /\ sent[2][1] = "other"
    /\ AllClassified
    /\ Present(players, "Alice")
    /\ Len(evHistory) = 3
    /\ evHistory[3] = <<"PlayerJoin", "Alice joined the game">>

----------------------------------------------------------------------------
\* The snapshot

\* What the holder of a snapshot sees of its two lists.
Seen(snap) == [players |-> SeenPlayers(snap), events |-> snap.events]

----------------------------------------------------------------------------
\* The lock and the context

\* A timer loop reads the status.
StatusCheck(c) ==
    \/ requestTPSLoop_tick(c)
    \/ backupScheduler_tick(c)

\* C28: every access to the shared statistics is made holding the lock,
\* exclusive to write and shared to read, the status checks of the timer
\* loops included: so no loop reads the status while another goroutine
\* holds the lock to write.
C28_StatusReadUnderLock ==
    [][(\E c \in Children : StatusCheck(c)) => statsMutex = "free"]_vars

\* Run has stopped the server after the operator left.
TornDown ==
    /\ quit
    /\ thr[Operator].pc = "idle"
    /\ thr[Operator].res = <<"Stop", "ok">>

\* C29: once the supervisor is torn down (Run's last Stop has returned) the
\* cancellation signal has fired, and every timer loop has returned or is
\* free to return.
C29_TeardownCancels ==
    TornDown =>
        /\ ctxDone
        /\ \A l \in Loops :
              LoopRunning(l) => ENABLED LoopExit(l)

\* A tick of a timer loop: what the loop does when its ticker fires.
TickAction(c) ==
    \/ updateResourceStats(c)
    \/ requestTPSLoop_tick(c)
    \/ backupScheduler_tick(c)

-----------------------------------------------------------------------------
\* The resource sampler

\* C36: the first sample that reads the counters of a process reports zero
\* bandwidth in both directions, for the first child and for every child a
\* restart attaches.
C36_FirstSampleZeroRate ==
    [][\A p \in Children :
          (ioCounters[p] = NoCounters /\ ioCounters'[p] # NoCounters)
              => (bandwidthIn' = 0 /\ bandwidthOut' = 0)]_vars


-----------------------------------------------------------------------------
\* The loops of one supervisor

\* The loops of one kind that are running.
LoopsOf(kind) ==
    {c \in Children : LoopRunning(<<kind, c>>)}

\* The monitorProcess goroutines that have not returned.
Monitors ==
    {m \in Children : mon[m].pc \notin {"off", "done"}}

\* C34: at any time at most one resource-sampling loop, one metrics-request
\* loop, one backup-scheduling loop and one exit monitor are running, also
\* after a Stop and a Start or a Restart.
C34_OneLoopOfEachKind ==
    /\ \A kind \in {"stats", "tps", "backup"} : Cardinality(LoopsOf(kind)) <= 1
    /\ Cardinality(Monitors) <= 1


\* A requestTPSLoop writes the metrics-polling command to child d.
PollSent(d) ==
    /\ \E c \in Children : tps[c] = "send" /\ tps'[c] = "wait"
    /\ stdinLog'[d] = Append(stdinLog[d], "forge tps")

\* C35: a loop decides to send the metrics-polling command only on reading
\* status Running, and the command reaches a child only after the 15 s
\* warm-up that started with that child's spawn is over, for the first child
\* and for a child spawned by a Restart.
C35_PollAfterWarmup ==
    [][/\ \A c \in Children :
             (tps[c] = "wait" /\ tps'[c] = "send") => status = "Running"
       /\ \A d \in Children : PollSent(d) => d \in awake]_vars


-----------------------------------------------------------------------------
\* Lines about players the registry does not hold

\* Registry q is registry p with, at most, field f of the entries named name
\* set to v.
OnlyFieldSet(p, q, name, f, v) ==
    /\ Len(q) = Len(p)
    /\ \A i \in 1..Len(p) :
          IF p[i].name = name
          THEN q[i] = [p[i] EXCEPT ![f] = v] \/ q[i] = p[i]
          ELSE q[i] = p[i]

\* C37: a leave line for a name the registry does not hold leaves the
\* registry as it is and still appends one PlayerLeave event; an address or
\* identifier line never adds or removes an entry, sets at most that field
\* of the entry with exactly that name, leaves the registry as it is when
\* the name is absent, and logs nothing; none of them changes the status.
C37_AbsentNameIsNoOp ==
    [][\A c \in Children, s \in Streams :
          LET l == Line(rd[c][s][1])
          IN  /\ (Classifies(c, s, "leave") /\ ~Present(players, l.leave)) =>
                    LET e == <<"PlayerLeave", l.leave \o " left the game">>
                    IN  /\ players' = players
                        /\ evHistory' = Append(evHistory, e)
                        /\ status' = status
              /\ Classifies(c, s, "ip") =>
                    /\ OnlyFieldSet(players, players', l.ipName, "ip", l.ip)
                    /\ ~Present(players, l.ipName) => players' = players
                    /\ evHistory' = evHistory
                    /\ status' = status
              /\ Classifies(c, s, "uuid") =>
                    /\ OnlyFieldSet(players, players', l.uuidName, "uuid",
                                    l.uuid)
                    /\ ~Present(players, l.uuidName) => players' = players
                    /\ evHistory' = evHistory
                    /\ status' = status]_vars

\* Bob joined; a leave line and an address line of Alice, who never joined,
\* were classified: the registry holds Bob alone, with no address, and
\* Alice's leave is in the log.
C37_Witness ==
    /\ AllClassified
    /\ Len(sent) = 3
    /\ \E i \in 1..Len(sent) : sent[i][1] = "ipA"
    /\ Count("PlayerJoin", "Alice joined the game") = 0
    /\ Count("PlayerLeave", "Alice left the game") = 1
    /\ Len(players) = 1
    /\ players[1].name = "Bob"
    /\ players[1].ip = ""


-----------------------------------------------------------------------------
\* A crash without auto-restart

\* The step is one of a call the operator has made.
OperatorActs ==
    thr'[Operator] # thr[Operator] \/ opsLeft' # opsLeft

\* C38: with auto-restart disabled, once an unexpected exit has set the
\* status to Crashed nothing but a call of the operator changes it: the
\* status stays Crashed, Restart is not called and no child is spawned.
C38_CrashedUntilOperatorActs ==
    [][(status = "Crashed" /\ ~autoRestart /\ ~OperatorActs) =>
          /\ status' = "Crashed"
          /\ restarts' = restarts
          /\ NumSpawned' = NumSpawned
          /\ \A t \in Threads \ {Operator} : thr'[t] = thr[t]]_vars

\* C39: whenever the status is Crashed no child of the supervisor is alive:
\* Crashed is set for the exit of the current child only, never for that of
\* a child a later Start has replaced.
C39_CrashedMeansNoChild ==
    status = "Crashed" => \A c \in Children : child[c] # "alive"


-----------------------------------------------------------------------------
\* The scheduled backup

\* C40: the scheduler calls performBackup only on reading status Running;
\* performBackup goes from CreateBackup, succeeded or failed, to its save-on
\* call and returns only through that call, which writes save-on to the
\* input stream if the stream takes it; and once save-off has been sent the
\* save-on call is reached.
C40_SaveOnFollowsSaveOff ==
    /\ [][\A c \in Children :
             /\ (bk[c] = "wait" /\ bk'[c] = "begin") => status = "Running"
             /\ (bk[c] = "create" /\ bk'[c] # "create") => bk'[c] = "save_on"
             /\ (bk[c] # "wait" /\ bk'[c] = "wait") =>
                   /\ bk[c] = "save_on"
                   /\ WriteOk =>
                         stdinLog'[stdin] = Append(stdinLog[stdin], "save-on")
          ]_vars
    /\ \A c \in Children : (bk[c] = "save_all") ~> (bk[c] = "wait")

\* A backup whose CreateBackup failed has run to its end: the child has
\* received save-off and, as its last line, save-on.
C40_Witness ==
    /\ bk[1] = "wait"
    /\ \E i \in 1..Len(evHistory) : evHistory[i] = <<"Error", "Backup failed">>
    /\ Len(stdinLog[1]) = 3
    /\ stdinLog[1][1] = "save-off"
    /\ stdinLog[1][3] = "save-on"


-----------------------------------------------------------------------------
\* The backup catalog

\* The call that has just returned.
LastCall == calls[Len(calls)]

\* CreateBackup returns nil in this step.
Created ==
    /\ Len(calls') = Len(calls) + 1
    /\ calls'[Len(calls')].op = "CreateBackup"
    /\ calls'[Len(calls')].err = "none"

\* The archives there are to choose from when the archive of this step is
\* written: those listed before, but for one of the same name, and the new
\* one.
Candidates ==
    LET name == calls'[Len(calls')].name
    IN  {a \in ListBackups(backupDirExists, backupDir) : a.Name # name}
            \cup {[Name |-> name, CreatedAt |-> Len(calls')]}

\* The listing after this step holds at most maxBackups archives, as many
\* as it can, and those are the most recently created ones.
KeepsMostRecent ==
    LET list == ListBackups(backupDirExists', backupDir')
    IN  /\ Cardinality(list) = Min(maxBackups, Cardinality(Candidates))
        /\ list \subseteq Candidates
        /\ \A a \in list, b \in Candidates \ list :
              a.CreatedAt > b.CreatedAt

\* Three calls were made, all of them CreateBackup returning nil, at three
\* timestamps in rising order.
ThreeCreated ==
    /\ Len(calls) = 3
    /\ \A i \in 1..3 : calls[i].op = "CreateBackup" /\ calls[i].err = "none"
    /\ calls[1].name[2] < calls[2].name[2]
    /\ calls[2].name[2] < calls[3].name[2]

\* The names ListBackups returns.
Listed ==
    {a.Name : a \in ListBackups(backupDirExists, backupDir)}

NoWorldDirectory ==
    \A p \in DOMAIN serverDir :
        (Len(p) = 1 /\ serverDir[p].dir) =>
            /\ ~IsWorldName(p[1])
            /\ <<p[1], "level.dat">> \notin DOMAIN serverDir

\* CreateBackup returns in this step.
CreateReturns ==
    /\ Len(calls') = Len(calls) + 1
    /\ calls'[Len(calls')].op = "CreateBackup"

\* C32: when no directory right below the server directory is a world's,
\* CreateBackup fails, with the error that no world directory was found
\* unless making the backup directory or reading the server directory has
\* failed before; no file of the backup directory is created, replaced or
\* deleted, and ListBackups returns what it returned before.
C32_NoWorldsNoArchive ==
    [][(CreateReturns /\ NoWorldDirectory) =>
          /\ calls'[Len(calls')].err \in {"no world", "mkdir", "readdir"}
          /\ backupDir' = backupDir
          /\ ListBackups(backupDirExists', backupDir')
                = ListBackups(backupDirExists, backupDir)]_vars

\* CreateBackup found no world beside a directory worlds, a directory lobby
\* without the marker and a file world_notes; the older archive and the
\* other file are still in the backup directory.
C32_Witness ==
    /\ Len(calls) > 0
    /\ LastCall.op = "CreateBackup"
    /\ LastCall.err = "no world"
    /\ {<<"worlds">>, <<"lobby">>, <<"world_notes">>} \subseteq DOMAIN serverDir
    /\ DOMAIN backupDir = {ArchiveName(0), Stray}


\* RestoreBackup of archive n returns nil in this step.
Restored(n) ==
    /\ Len(calls') = Len(calls) + 1
    /\ calls'[Len(calls')] = [op |-> "RestoreBackup", name |-> n,
                              err |-> "none", warned |-> FALSE]

\* C33: RestoreBackup of an archive that CreateBackup has made leaves, below
\* the server directory, every directory and every file of the trees the
\* archive was made from, with the file's content as it was then, whatever
\* is there before; only the files named session.lock are not restored:
\* those it leaves as they are.
C33_RestoreReproducesTrees ==
    [][\A n \in DOMAIN backupDir :
          (Restored(n) /\ backupDir[n].complete) =>
              \A p \in DOMAIN backupDir[n].from :
                  IF backupDir[n].from[p].dir \/ p[Len(p)] # "session.lock"
                  THEN /\ p \in DOMAIN serverDir'
                       /\ serverDir'[p] = backupDir[n].from[p]
                  ELSE /\ p \in DOMAIN serverDir' <=> p \in DOMAIN serverDir
                       /\ p \in DOMAIN serverDir =>
                             serverDir'[p] = serverDir[p]]_vars

====
